---------------------------- MODULE Spec2Model ----------------------------
(***************************************************************************)
(* Model of the MIS report endpoint GET /api/mis-report/data               *)
(* (server/routes/misReport.js, kept here as src/unnamed/part_000).        *)
(*                                                                         *)
(* One request is followed from its arrival to its single response.  The   *)
(* handler is an async function: it runs synchronously up to each `await`  *)
(* of a store query, so every action below is one such synchronous run:    *)
(* the code from one await (its resolution) up to the next query issued.   *)
(* A query may also reject, which transfers control to the catch block.    *)
(*                                                                         *)
(* Further parts model several report requests running at once against    *)
(* one store, the FMSDisplayConfig statics (server/models/                 *)
(* FMSDisplayConfig.js) and the purchase dashboard cache (server/routes/   *)
(* purchase.js).  Each part has its own variables, initial condition and   *)
(* next-state relation, and leaves the variables of the other parts alone. *)
(*                                                                         *)
(* JavaScript values are represented as follows:                           *)
(*   - a missing / undefined / empty string field is the string Undefined; *)
(*   - a populated user reference is the user's id, or Null when the       *)
(*     reference is null or did not resolve; the populated fields are      *)
(*     looked up with Username / Email;                                    *)
(*   - a plain object with dynamic keys is a function over strings;        *)
(*   - an object used as an insertion-ordered map (byPerson) is the        *)
(*     sequence of its values in insertion order;                          *)
(*   - a number that may be NaN is a record [nan, val];                    *)
(*   - a query-string parameter is a record [present, text], text being    *)
(*     the sequence of its characters;                                     *)
(*   - a Date is the record of its local calendar fields; toISOString     *)
(*     renders the same instant, so the response carries the record.       *)
(***************************************************************************)
EXTENDS Integers, Sequences, FiniteSets, TLC

VARIABLES
    pc,              \* position of the handler
    query,           \* req.query: [year, month]
    yearNum,         \* parseInt(year)
    monthNum,        \* parseInt(month)
    startDate,       \* getMonthRange(...).startDate
    endDate,         \* getMonthRange(...).endDate
    users,           \* result of User.find
    tasks,           \* result of Task.find
    projects,        \* result of Project.find
    checklists,      \* result of Checklist.find
    helpTickets,     \* result of HelpTicket.find
    taskStats,       \* the four aggregates
    fmsStats,
    checklistStats,
    helpTicketStats,
    responses,       \* what was written to res, in order
    issued,          \* store queries issued so far, in order
    rejected,        \* the store query that rejected, or Undefined
    capacity,        \* the number of records the store can answer with
    page,            \* the report page of the browser: its state and requests
    \* several report requests at once
    store,           \* the documents of the store, by collection and period
    frames,          \* the local bindings of each invocation of the handler
    handlers,        \* each request: its query, position and response
    \* FMSDisplayConfig
    configDocs,      \* the documents of the collection, in insertion order
    configCalls,     \* each call of getConfig / updateConfig
    userDocs,        \* the User collection: the document of each id
    \* purchase dashboard
    dashboardCache,  \* module variable of purchase.js: the data, or Null
    cacheTimestamp,  \* module variable of purchase.js
    clock,           \* what Date.now() returns
    serviceCalls,    \* calls of getPurchaseDashboardData made so far
    purchaseRequests,\* each request of the purchase routes
    sheets           \* one call of getPurchaseDashboardData: the sheets it
                     \* reads, its position and its result

reportVars ==
    << pc, query, yearNum, monthNum, startDate, endDate, users, tasks,
       projects, checklists, helpTickets, taskStats, fmsStats,
       checklistStats, helpTicketStats, responses, issued, rejected,
       capacity, page >>

concurrentVars == << store, frames, handlers >>

configVars == << configDocs, configCalls, userDocs >>

purchaseVars == << dashboardCache, cacheTimestamp, clock, serviceCalls,
                   purchaseRequests, sheets >>

vars == << reportVars, concurrentVars, configVars, purchaseVars >>

-----------------------------------------------------------------------------
(* Bounds of the model *)

\* fetched records of one request, all four collections together
\* (a workflow instance counts one, plus one per step after its first)
MaxRecords == 2

\* the same, in the runs that explore the request texts
MaxPeriodRecords == 0

-----------------------------------------------------------------------------
(* JavaScript values *)

Undefined == "<undefined>"
Null == "<null>"

\* a value JavaScript treats as false in `if (v)` / `v || d` (strings only)
Falsy(v) == v = Undefined

Num(v) == [nan |-> FALSE, val |-> v]
NaN == [nan |-> TRUE, val |-> 0]
isNaN(n) == n.nan

Absent == [present |-> FALSE, text |-> << >>]
Param(t) == [present |-> TRUE, text |-> t]

\* !param for a query-string parameter: undefined or the empty string
Not(p) == ~p.present \/ p.text = << >>

-----------------------------------------------------------------------------
(* parseInt(string) with no radix *)

DigitValue(c) ==
    CASE c = "0" -> 0 [] c = "1" -> 1 [] c = "2" -> 2 [] c = "3" -> 3
      [] c = "4" -> 4 [] c = "5" -> 5 [] c = "6" -> 6 [] c = "7" -> 7
      [] c = "8" -> 8 [] c = "9" -> 9 [] c = "a" -> 10
      [] OTHER -> 99

IsWhiteSpace(c) == c = " "

RECURSIVE TrimStart(_)
TrimStart(s) ==
    IF s # << >> /\ IsWhiteSpace(Head(s)) THEN TrimStart(Tail(s)) ELSE s

\* the value of the longest prefix of s made of digits of the radix,
\* continuing from acc; seen tells whether a digit was consumed
RECURSIVE ParseDigits(_, _, _, _)
ParseDigits(s, radix, acc, seen) ==
    IF s # << >> /\ DigitValue(Head(s)) < radix
    THEN ParseDigits(Tail(s), radix, acc * radix + DigitValue(Head(s)), TRUE)
    ELSE [seen |-> seen, val |-> acc]

parseInt(text) ==
    LET s0 == TrimStart(text)
        neg == s0 # << >> /\ Head(s0) = "-"
        s1 == IF s0 # << >> /\ Head(s0) \in {"-", "+"} THEN Tail(s0) ELSE s0
        hex == Len(s1) >= 2 /\ s1[1] = "0" /\ s1[2] \in {"x", "X"}
        s2 == IF hex THEN SubSeq(s1, 3, Len(s1)) ELSE s1
        r == ParseDigits(s2, IF hex THEN 16 ELSE 10, 0, FALSE)
    IN  IF r.seen THEN Num(IF neg THEN 0 - r.val ELSE r.val) ELSE NaN

-----------------------------------------------------------------------------
(* new Date(year, monthIndex, day, hours, minutes, seconds, ms), local time *)

IsLeapYear(y) == y % 4 = 0 /\ (y % 100 # 0 \/ y % 400 = 0)

\* m is a month index, 0 = January
DaysInMonth(y, m) ==
    IF m = 1 THEN (IF IsLeapYear(y) THEN 29 ELSE 28)
    ELSE IF m \in {3, 5, 8, 10} THEN 30 ELSE 31

\* day `day` of the month numbered mm (= 12 * year + month index), where day
\* may lie outside the month: day 0 is the last day of the month before
RECURSIVE MakeDay(_, _)
MakeDay(mm, day) ==
    LET y == mm \div 12
        m == mm % 12
    IN  IF day < 1
        THEN MakeDay(mm - 1, day + DaysInMonth((mm - 1) \div 12, (mm - 1) % 12))
        ELSE IF day > DaysInMonth(y, m)
        THEN MakeDay(mm + 1, day - DaysInMonth(y, m))
        ELSE [year |-> y, month |-> m, date |-> day]

\* the Date constructor reads a year of 0..99 as 1900 + year
Date(year, monthIndex, day, hours, minutes, seconds, ms) ==
    LET yf == IF year >= 0 /\ year <= 99 THEN 1900 + year ELSE year
        d == MakeDay(12 * yf + monthIndex, day)
    IN  [year |-> d.year, month |-> d.month, date |-> d.date,
         hours |-> hours, minutes |-> minutes, seconds |-> seconds, ms |-> ms]

setHours(d, hours, minutes, seconds, ms) ==
    [d EXCEPT !.hours = hours, !.minutes = minutes, !.seconds = seconds,
              !.ms = ms]

getMonthRange(year, month) ==
    [startDate |-> setHours(Date(year, month - 1, 1, 0, 0, 0, 0), 0, 0, 0, 0),
     endDate |-> Date(year, month, 0, 23, 59, 59, 999)]

\* the value of a variable the handler has not assigned yet
Unset == [unset |-> TRUE]

-----------------------------------------------------------------------------
(* Plain objects and arrays *)

EmptyObject == [k \in {} |-> 0]

\* mutant of Increment: a value without a seeded bucket is dropped
IncrementKnownOnly(obj, k) ==
    IF k \in DOMAIN obj THEN [obj EXCEPT ![k] = @ + 1] ELSE obj

\* obj[k] = (obj[k] || 0) + 1
Increment(obj, k) ==
    IF k \in DOMAIN obj THEN [obj EXCEPT ![k] = @ + 1] ELSE obj @@ (k :> 1)

\* the position in byPerson of the record inserted under key userId, 0 if
\* byPerson[userId] is undefined
RECURSIVE IndexOfFrom(_, _, _)
IndexOfFrom(byPerson, userId, i) ==
    IF i > Len(byPerson) THEN 0
    ELSE IF byPerson[i].userId = userId THEN i
    ELSE IndexOfFrom(byPerson, userId, i + 1)

IndexOf(byPerson, userId) == IndexOfFrom(byPerson, userId, 1)

\* mutant of EnsurePerson: the record is created anew at every encounter
EnsurePersonAnew(byPerson, userId, fresh) ==
    IF IndexOfFrom(byPerson, userId, 1) = 0 THEN Append(byPerson, fresh)
    ELSE [byPerson EXCEPT ![IndexOfFrom(byPerson, userId, 1)] = fresh]

\* if (!byPerson[userId]) byPerson[userId] = fresh
EnsurePerson(byPerson, userId, fresh) ==
    IF IndexOf(byPerson, userId) = 0 THEN Append(byPerson, fresh) ELSE byPerson

-----------------------------------------------------------------------------
(* The user directory and populated references *)

UserIds == {"u1", "u2", "u3"}

\* the stored username / email of a user; u2 has neither
Username(id) == IF id = "u1" THEN "alice" ELSE IF id = "u3" THEN "carol" ELSE Undefined
Email(id) == IF id = "u1" THEN "alice@x.org" ELSE Undefined

UserDoc(id) == [_id |-> id, username |-> Username(id), email |-> Email(id)]

\* v || d
OrElse(v, d) == IF Falsy(v) THEN d ELSE v

-----------------------------------------------------------------------------
(* TASKS AGGREGATION *)

\* mutant of NewTaskStats: cyclic counts the five listed cyclic types only
NewTaskStatsListedCyclic(ts) ==
    [total |-> Len(ts),
     oneOff |-> Len(SelectSeq(ts, LAMBDA t : t.taskType = "one-time")),
     cyclic |-> Len(SelectSeq(ts, LAMBDA t : t.taskType \in
                    {"daily", "weekly", "monthly", "quarterly", "yearly"})),
     byPerson |-> << >>,
     byStatus |-> ("pending" :> 0) @@ ("in-progress" :> 0) @@
                  ("completed" :> 0) @@ ("overdue" :> 0),
     byType |-> ("one-time" :> 0) @@ ("daily" :> 0) @@ ("weekly" :> 0) @@
                ("monthly" :> 0) @@ ("quarterly" :> 0) @@ ("yearly" :> 0)]

\* mutant of NewTaskStats: the overdue bucket is not seeded
NewTaskStatsNoOverdue(ts) ==
    [total |-> Len(ts),
     oneOff |-> Len(SelectSeq(ts, LAMBDA t : t.taskType = "one-time")),
     cyclic |-> Len(SelectSeq(ts, LAMBDA t : t.taskType # "one-time")),
     byPerson |-> << >>,
     byStatus |-> ("pending" :> 0) @@ ("in-progress" :> 0) @@
                  ("completed" :> 0),
     byType |-> ("one-time" :> 0) @@ ("daily" :> 0) @@ ("weekly" :> 0) @@
                ("monthly" :> 0) @@ ("quarterly" :> 0) @@ ("yearly" :> 0)]

NewTaskStats(ts) ==
    [total |-> Len(ts),
     oneOff |-> Len(SelectSeq(ts, LAMBDA t : t.taskType = "one-time")),
     cyclic |-> Len(SelectSeq(ts, LAMBDA t : t.taskType # "one-time")),
     byPerson |-> << >>,
     byStatus |-> ("pending" :> 0) @@ ("in-progress" :> 0) @@
                  ("completed" :> 0) @@ ("overdue" :> 0),
     byType |-> ("one-time" :> 0) @@ ("daily" :> 0) @@ ("weekly" :> 0) @@
                ("monthly" :> 0) @@ ("quarterly" :> 0) @@ ("yearly" :> 0)]

NewTaskPerson(userId) ==
    [userId |-> userId,
     username |-> OrElse(Username(userId), "Unknown"),
     email |-> OrElse(Email(userId), ""),
     total |-> 0, oneOff |-> 0, cyclic |-> 0,
     pending |-> 0, completed |-> 0, overdue |-> 0] @@ ("in-progress" :> 0)

\* the per-person part of the loop body, on the person's record
TaskPersonStep(person, task) ==
    LET p1 == [person EXCEPT !.total = @ + 1]
        p2 == IF task.taskType = "one-time"
              THEN [p1 EXCEPT !.oneOff = @ + 1]
              ELSE [p1 EXCEPT !.cyclic = @ + 1]
    IN  IF ~Falsy(task.status) THEN Increment(p2, task.status) ELSE p2

\* the body of tasks.forEach
TaskStep(stats, task) ==
    LET s1 == IF ~Falsy(task.status)
              THEN [stats EXCEPT !.byStatus = Increment(@, task.status)]
              ELSE stats
        s2 == IF ~Falsy(task.taskType)
              THEN [s1 EXCEPT !.byType = Increment(@, task.taskType)]
              ELSE s1
    IN  IF task.assignedTo # Null
        THEN LET userId == task.assignedTo
                 bp == EnsurePerson(s2.byPerson, userId, NewTaskPerson(userId))
                 i == IndexOf(bp, userId)
             IN  [s2 EXCEPT !.byPerson =
                      [bp EXCEPT ![i] = TaskPersonStep(@, task)]]
        ELSE s2

RECURSIVE TasksForEach(_, _)
TasksForEach(stats, ts) ==
    IF ts = << >> THEN stats
    ELSE TasksForEach(TaskStep(stats, Head(ts)), Tail(ts))

TaskStats(ts) == TasksForEach(NewTaskStats(ts), ts)

-----------------------------------------------------------------------------
(* FMS AGGREGATION *)

UndefinedNumber == [defined |-> FALSE, val |-> 0]
Number(n) == [defined |-> TRUE, val |-> n]

\* stepNo || 0
OrZero(n) == IF n.defined THEN n.val ELSE 0

NewFmsStats(ps) ==
    [total |-> Len(ps), inProgress |-> 0, completed |-> 0,
     byPerson |-> << >>, stepStatusBreakdown |-> << >>]

NewFmsPerson(userId) ==
    [userId |-> userId,
     username |-> OrElse(Username(userId), "Unknown"),
     email |-> OrElse(Email(userId), ""),
     total |-> 0, inProgress |-> 0, completed |-> 0, pendingSteps |-> << >>]

\* mutant of AllTasksDone: an instance without steps is not all done
AllTasksDoneSome(project) ==
    /\ project.tasks # << >>
    /\ \A i \in 1..Len(project.tasks) : project.tasks[i].status = "Done"

\* project.tasks.every(t => t.status === 'Done')
AllTasksDone(project) ==
    \A i \in 1..Len(project.tasks) : project.tasks[i].status = "Done"

\* mutant of HasInProgress: a Not Started step counts as in progress
HasInProgressOrNotStarted(project) ==
    \E i \in 1..Len(project.tasks) :
        project.tasks[i].status \in {"In Progress", "Pending", "Not Started"}

\* project.tasks.some(t => t.status === 'In Progress' || ... 'Pending')
HasInProgress(project) ==
    \E i \in 1..Len(project.tasks) :
        \/ project.tasks[i].status = "In Progress"
        \/ project.tasks[i].status = "Pending"

\* overall project status
ProjectStatusStep(stats, project) ==
    IF AllTasksDone(project) THEN [stats EXCEPT !.completed = @ + 1]
    ELSE IF HasInProgress(project) THEN [stats EXCEPT !.inProgress = @ + 1]
    ELSE stats

\* mutant of PendingStepStep: the last pending step is counted, not the
\* first
PendingStepStepLast(stats, project) ==
    LET pending == { i \in 1..Len(project.tasks) :
                       project.tasks[i].status
                           \in {"Pending", "In Progress", "Not Started"} }
    IN  IF pending # {}
        THEN LET i == CHOOSE x \in pending : \A y \in pending : y <= x
                 n == project.tasks[i].stepNo
                 key == IF n.defined THEN n.val ELSE 0
             IN  [stats EXCEPT !.stepStatusBreakdown =
                      IF key \in DOMAIN @ THEN [@ EXCEPT ![key] = @ + 1]
                      ELSE @ @@ (key :> 1)]
        ELSE stats

\* mutant of IsPendingStep: a step that was not started is not pending
IsPendingStepStarted(t) ==
    t.status = "Pending" \/ t.status = "In Progress"

IsPendingStep(t) ==
    t.status = "Pending" \/ t.status = "In Progress" \/ t.status = "Not Started"

\* project.tasks.find(IsPendingStep), from position i on: the position of
\* the first match, 0 for undefined
RECURSIVE FindPendingStepFrom(_, _)
FindPendingStepFrom(steps, i) ==
    IF i > Len(steps) THEN 0
    ELSE IF IsPendingStep(steps[i]) THEN i
    ELSE FindPendingStepFrom(steps, i + 1)

\* find pending step for each project
PendingStepStep(stats, project) ==
    LET i == FindPendingStepFrom(project.tasks, 1)
    IN  IF i # 0
        THEN [stats EXCEPT !.stepStatusBreakdown =
                  Increment(@, OrZero(project.tasks[i].stepNo))]
        ELSE stats

\* mutant of FmsPersonStep: the branches are not exclusive, so an
\* In Progress step is appended to pendingSteps too
FmsPersonStepNoElse(person, task) ==
    LET p1 == [person EXCEPT !.total = @ + 1]
        p2 == IF task.status = "In Progress"
              THEN [p1 EXCEPT !.inProgress = @ + 1] ELSE p1
    IN  IF task.status = "Done" THEN [p2 EXCEPT !.completed = @ + 1]
        ELSE [p2 EXCEPT !.pendingSteps = Append(@, OrZero(task.stepNo))]

\* mutant of FmsPersonStep: a Pending step counts as in progress, as it
\* does for the instance
FmsPersonStepPendingInProgress(person, task) ==
    LET p1 == [person EXCEPT !.total = @ + 1]
    IN  IF task.status = "In Progress" \/ task.status = "Pending"
        THEN [p1 EXCEPT !.inProgress = @ + 1]
        ELSE IF task.status = "Done" THEN [p1 EXCEPT !.completed = @ + 1]
        ELSE [p1 EXCEPT !.pendingSteps = Append(@, OrZero(task.stepNo))]

FmsPersonStep(person, task) ==
    LET p1 == [person EXCEPT !.total = @ + 1]
    IN  IF task.status = "In Progress" THEN [p1 EXCEPT !.inProgress = @ + 1]
        ELSE IF task.status = "Done" THEN [p1 EXCEPT !.completed = @ + 1]
        ELSE [p1 EXCEPT !.pendingSteps = Append(@, OrZero(task.stepNo))]

\* the body of project.tasks.forEach
FmsTaskStep(byPerson, task) ==
    IF task.who # Null
    THEN LET userId == task.who
             bp == EnsurePerson(byPerson, userId, NewFmsPerson(userId))
             i == IndexOf(bp, userId)
         IN  [bp EXCEPT ![i] = FmsPersonStep(@, task)]
    ELSE byPerson

RECURSIVE FmsTasksForEach(_, _)
FmsTasksForEach(byPerson, steps) ==
    IF steps = << >> THEN byPerson
    ELSE FmsTasksForEach(FmsTaskStep(byPerson, Head(steps)), Tail(steps))

\* the body of projects.forEach
ProjectStep(stats, project) ==
    LET s1 == ProjectStatusStep(stats, project)
        s2 == PendingStepStep(s1, project)
    IN  [s2 EXCEPT !.byPerson = FmsTasksForEach(@, project.tasks)]

RECURSIVE ProjectsForEach(_, _)
ProjectsForEach(stats, ps) ==
    IF ps = << >> THEN stats
    ELSE ProjectsForEach(ProjectStep(stats, Head(ps)), Tail(ps))

FmsStats(ps) == ProjectsForEach(NewFmsStats(ps), ps)

-----------------------------------------------------------------------------
(* CHECKLIST AGGREGATION *)

\* mutant of NewChecklistStats: the aggregate object lives on between
\* invocations, so an invocation goes on from what an earlier one counted
NewChecklistStatsCarried(cs) ==
    LET earlier == { f \in DOMAIN frames :
                         "checklistStats" \in DOMAIN frames[f] }
    IN  IF earlier = {}
        THEN [total |-> Len(cs), done |-> 0, notDone |-> 0, byPerson |-> << >>]
        ELSE frames[CHOOSE f \in earlier : TRUE].checklistStats

NewChecklistStats(cs) ==
    [total |-> Len(cs), done |-> 0, notDone |-> 0, byPerson |-> << >>]

NewChecklistPerson(userId) ==
    [userId |-> userId,
     username |-> OrElse(Username(userId), "Unknown"),
     email |-> OrElse(Email(userId), ""),
     total |-> 0, done |-> 0, notDone |-> 0]

\* mutant of ChecklistStatusStep: a checklist without a status is counted
\* in neither bucket
ChecklistStatusStepStatedOnly(counters, checklist) ==
    IF checklist.status = "Submitted"
    THEN [counters EXCEPT !.done = @ + 1]
    ELSE IF checklist.status # Undefined
    THEN [counters EXCEPT !.notDone = @ + 1]
    ELSE counters

\* status breakdown, of the aggregate and of a person's record alike
ChecklistStatusStep(counters, checklist) ==
    IF checklist.status = "Submitted"
    THEN [counters EXCEPT !.done = @ + 1]
    ELSE [counters EXCEPT !.notDone = @ + 1]

\* the body of checklists.forEach
ChecklistStep(stats, checklist) ==
    LET s1 == ChecklistStatusStep(stats, checklist)
    IN  IF checklist.assignedTo # Null
        THEN LET userId == checklist.assignedTo
                 bp == EnsurePerson(s1.byPerson, userId,
                                    NewChecklistPerson(userId))
                 i == IndexOf(bp, userId)
             IN  [s1 EXCEPT !.byPerson =
                      [bp EXCEPT ![i] =
                           ChecklistStatusStep([@ EXCEPT !.total = @ + 1],
                                               checklist)]]
        ELSE s1

RECURSIVE ChecklistsForEach(_, _)
ChecklistsForEach(stats, cs) ==
    IF cs = << >> THEN stats
    ELSE ChecklistsForEach(ChecklistStep(stats, Head(cs)), Tail(cs))

ChecklistStats(cs) == ChecklistsForEach(NewChecklistStats(cs), cs)

-----------------------------------------------------------------------------
(* HELP TICKETS AGGREGATION *)

\* mutant of toLowerCase: the text is compared as stored
toLowerCaseAsStored(str) == str

\* String.prototype.toLowerCase, on the status texts of the model
toLowerCase(str) ==
    CASE str = "Open" -> "open"
      [] str = "In Progress" -> "in progress"
      [] str = "CLOSED" -> "closed"
      [] str = "Verified & Closed" -> "verified & closed"
      [] str = "On Hold" -> "on hold"
      [] OTHER -> str

NewHelpTicketStats(hs) ==
    [total |-> Len(hs), open |-> 0, closed |-> 0, byPerson |-> << >>]
        @@ ("in-progress" :> 0)

NewHelpTicketPerson(userId) ==
    [userId |-> userId,
     username |-> OrElse(Username(userId), "Unknown"),
     email |-> OrElse(Email(userId), ""),
     total |-> 0, open |-> 0, closed |-> 0] @@ ("in-progress" :> 0)

\* ticket.status?.toLowerCase() || 'open'
TicketStatus(ticket) ==
    IF ticket.status = Undefined THEN "open"
    ELSE OrElse(toLowerCase(ticket.status), "open")

\* status breakdown, of the aggregate and of a person's record alike
TicketStatusStep(counters, status) ==
    IF status = "open" THEN [counters EXCEPT !.open = @ + 1]
    ELSE IF status = "in progress"
    THEN [counters EXCEPT !["in-progress"] = @ + 1]
    ELSE IF status = "closed" \/ status = "verified & closed"
    THEN [counters EXCEPT !.closed = @ + 1]
    ELSE counters

\* mutant of TicketPersonId: the raiser is preferred to the assignee
TicketPersonIdRaiserFirst(ticket) ==
    IF ticket.raisedBy # Null THEN ticket.raisedBy ELSE ticket.assignedTo

\* ticket.assignedTo?._id || ticket.raisedBy?._id
TicketPersonId(ticket) ==
    IF ticket.assignedTo # Null THEN ticket.assignedTo ELSE ticket.raisedBy

\* the body of helpTickets.forEach
HelpTicketStep(stats, ticket) ==
    LET status == TicketStatus(ticket)
        s1 == TicketStatusStep(stats, status)
        personId == TicketPersonId(ticket)
    IN  IF personId # Null
        THEN LET \* ticket.assignedTo || ticket.raisedBy
                 person == IF ticket.assignedTo # Null
                           THEN ticket.assignedTo ELSE ticket.raisedBy
                 fresh == [NewHelpTicketPerson(personId) EXCEPT
                               !.username = OrElse(Username(person), "Unknown"),
                               !.email = OrElse(Email(person), "")]
                 bp == EnsurePerson(s1.byPerson, personId, fresh)
                 i == IndexOf(bp, personId)
             IN  [s1 EXCEPT !.byPerson =
                      [bp EXCEPT ![i] =
                           TicketStatusStep([@ EXCEPT !.total = @ + 1],
                                            status)]]
        ELSE s1

RECURSIVE HelpTicketsForEach(_, _)
HelpTicketsForEach(stats, hs) ==
    IF hs = << >> THEN stats
    ELSE HelpTicketsForEach(HelpTicketStep(stats, Head(hs)), Tail(hs))

HelpTicketStats(hs) == HelpTicketsForEach(NewHelpTicketStats(hs), hs)

-----------------------------------------------------------------------------
(* The responses *)

\* mutant of convertPersonStats: the records come out last inserted first
convertPersonStatsReversed(byPerson) ==
    [i \in 1..Len(byPerson) |-> byPerson[Len(byPerson) + 1 - i]]

\* Object.values(stats).map(person => ({...person, userId: ...toString()})):
\* the records in insertion order, the userId (a string already) unchanged
convertPersonStats(byPerson) ==
    [i \in 1..Len(byPerson) |-> [byPerson[i] EXCEPT !.userId = @]]

\* the document of res.json at the end of the handler, from the bindings
\* f of the invocation; ht is helpTicketStats
ReportDocument(f, ht) ==
    [success |-> TRUE,
     period |-> [year |-> f.yearNum.val, month |-> f.monthNum.val,
                 startDate |-> f.startDate, endDate |-> f.endDate],
     tasks |-> [f.taskStats EXCEPT !.byPerson = convertPersonStats(@)],
     fms |-> [f.fmsStats EXCEPT !.byPerson = convertPersonStats(@)],
     checklists |-> [f.checklistStats EXCEPT !.byPerson = convertPersonStats(@)],
     helpTickets |-> [ht EXCEPT !.byPerson = convertPersonStats(@)],
     users |-> [i \in 1..Len(f.users) |->
                    [_id |-> f.users[i]._id, username |-> f.users[i].username,
                     email |-> f.users[i].email]]]

\* the same document, of the single request
ReportBody(ht) ==
    ReportDocument([yearNum |-> yearNum, monthNum |-> monthNum,
                    startDate |-> startDate, endDate |-> endDate,
                    taskStats |-> taskStats, fmsStats |-> fmsStats,
                    checklistStats |-> checklistStats, users |-> users], ht)

Response(status, body) == [status |-> status, body |-> body]

-----------------------------------------------------------------------------
(* What a request may carry and what the store may answer *)

YearParams ==
    { Absent, Param(<< >>), Param(<< "a" >>), Param(<< "2", "0", "2", "4" >>),
      Param(<< "2", "0", "2", "3" >>), Param(<< "1", "9", "0", "0" >>),
      Param(<< "2", "4" >>), Param(<< "-", "1" >>),
      Param(<< "2", "0", "2", "x" >>) }

MonthParams ==
    { Absent, Param(<< >>), Param(<< "a" >>), Param(<< "0" >>),
      Param(<< "1" >>), Param(<< "2" >>), Param(<< "1", "2" >>),
      Param(<< "1", "3" >>), Param(<< "-", "1" >>), Param(<< " ", "2" >>),
      Param(<< "2", "x" >>), Param(<< "0", "x", "a" >>) }

AllQueries == [year : YearParams, month : MonthParams]

\* the requests of the aggregation runs: one accepted, one refused
CoreQueries ==
    { [year |-> Param(<< "2", "0", "2", "4" >>), month |-> Param(<< "2" >>)],
      [year |-> Absent, month |-> Param(<< "2" >>)] }

Refs == {Null, "u1", "u2"}

\* "adhoc" and "on-hold" stand for the values without a seeded bucket; no
\* status is the name of another field of a person record
TaskTypes == {Undefined, "one-time", "daily", "adhoc"}
TaskStatuses == {Undefined, "completed", "on-hold"}
Tasks == [taskType : TaskTypes, status : TaskStatuses, assignedTo : Refs]

StepNos == {UndefinedNumber, Number(2)}
StepStatuses == {"Done", "Pending", "In Progress", "Not Started"}
Steps == [stepNo : StepNos, status : StepStatuses, who : Refs]

ChecklistStatuses == {Undefined, "Submitted", "Pending"}
Checklists == [status : ChecklistStatuses, assignedTo : Refs]

TicketStatuses ==
    {Undefined, "Open", "In Progress", "CLOSED", "Verified & Closed", "On Hold"}
HelpTickets ==
    [status : TicketStatuses, assignedTo : Refs, raisedBy : {Null, "u2"}]

BaseDirectory == << UserDoc("u1"), UserDoc("u2") >>

UserDirectories ==
    { BaseDirectory, << UserDoc("u2"), UserDoc("u3"), UserDoc("u1") >> }

SeqsUpTo(S, n) == UNION { [1..k -> S] : k \in 0..n }

\* what a workflow instance of n steps counts towards the capacity
InstanceSize(n) == IF n = 0 THEN 1 ELSE n

RECURSIVE ShapeSize(_)
ShapeSize(shape) ==
    IF shape = << >> THEN 0
    ELSE InstanceSize(Head(shape)) + ShapeSize(Tail(shape))

RECURSIVE ShapeSteps(_)
ShapeSteps(shape) ==
    IF shape = << >> THEN 0 ELSE Head(shape) + ShapeSteps(Tail(shape))

\* the step counts of the instances of a list of size n at most
Shapes(n) == { shape \in SeqsUpTo(0..n, n) : ShapeSize(shape) <= n }

\* the list of instances with the step counts of shape, its steps taken
\* from the sequence steps in order
RECURSIVE Instances(_, _)
Instances(shape, steps) ==
    IF shape = << >> THEN << >>
    ELSE << [tasks |-> SubSeq(steps, 1, Head(shape))] >>
         \o Instances(Tail(shape), SubSeq(steps, Head(shape) + 1, Len(steps)))

ProjectsSize(ps) == ShapeSize([i \in 1..Len(ps) |-> Len(ps[i].tasks)])

-----------------------------------------------------------------------------
(* The handler of GET /data *)

\* mutant of InvalidYearOrMonth: the month is checked as a month index
InvalidYearOrMonthIndex(y, m) == isNaN(y) \/ isNaN(m) \/ m.val < 0 \/ m.val > 11

\* the second validation of the handler, on the parsed numbers
InvalidYearOrMonth(y, m) == isNaN(y) \/ isNaN(m) \/ m.val < 1 \/ m.val > 12

\* what the store can still answer with, the first two users of the
\* directory not counted
Remaining(fetched) == capacity - (Len(users) - Len(BaseDirectory)) - fetched

\* no report page is open
PageOff == page = [mounted |-> FALSE, role |-> "none"]

InitWith(queries, capacities) ==
    /\ pc = "start"
    /\ query \in queries
    /\ capacity \in capacities
    /\ yearNum = Unset /\ monthNum = Unset
    /\ startDate = Unset /\ endDate = Unset
    /\ users = Unset /\ tasks = Unset /\ projects = Unset
    /\ checklists = Unset /\ helpTickets = Unset
    /\ taskStats = Unset /\ fmsStats = Unset
    /\ checklistStats = Unset /\ helpTicketStats = Unset
    /\ responses = << >>
    /\ issued = << >>
    /\ rejected = Undefined

\* the other parts at rest
ConcurrentOff == store = Unset /\ frames = << >> /\ handlers = << >>

ConfigOff ==
    configDocs = << >> /\ configCalls = << >> /\ userDocs = << >>

\* no call of getPurchaseDashboardData is followed
SheetsOff == sheets = [pc |-> "off"]

\* no request of the purchase routes arrives
RoutesOff ==
    /\ dashboardCache = Null /\ cacheTimestamp = 0 /\ clock = 0
    /\ serviceCalls = 0 /\ purchaseRequests = << >>

PurchaseOff == RoutesOff /\ SheetsOff

Init ==
    /\ InitWith(CoreQueries, {MaxRecords}) /\ PageOff
    /\ ConcurrentOff /\ ConfigOff /\ PurchaseOff

\* the handler up to its first await: validation, getMonthRange, User.find
Validate ==
    /\ pc = "start"
    /\ IF Not(query.year) \/ Not(query.month)
       THEN /\ responses' = Append(responses,
                   Response(400, [message |-> "Year and month are required"]))
            /\ pc' = "done"
            /\ UNCHANGED << yearNum, monthNum, startDate, endDate, issued >>
       ELSE LET y == parseInt(query.year.text)
                m == parseInt(query.month.text)
            IN  /\ yearNum' = y
                /\ monthNum' = m
                /\ IF InvalidYearOrMonth(y, m)
                   THEN /\ responses' = Append(responses,
                               Response(400, [message |-> "Invalid year or month"]))
                        /\ pc' = "done"
                        /\ UNCHANGED << startDate, endDate, issued >>
                   ELSE /\ startDate' = getMonthRange(y.val, m.val).startDate
                        /\ endDate' = getMonthRange(y.val, m.val).endDate
                        /\ issued' = Append(issued, "users")
                        /\ pc' = "awaitUsers"
                        /\ UNCHANGED responses
    /\ UNCHANGED << query, users, tasks, projects, checklists, helpTickets,
                    taskStats, fmsStats, checklistStats, helpTicketStats,
                    rejected, capacity >>
    /\ UNCHANGED << page, concurrentVars, configVars, purchaseVars >>

\* User.find resolves; Task.find is issued
UsersResolve ==
    /\ pc = "awaitUsers"
    /\ users' \in { us \in UserDirectories :
                       Len(us) - Len(BaseDirectory) <= capacity }
    /\ issued' = Append(issued, "tasks")
    /\ pc' = "awaitTasks"
    /\ UNCHANGED << query, yearNum, monthNum, startDate, endDate, tasks,
                    projects, checklists, helpTickets, taskStats, fmsStats,
                    checklistStats, helpTicketStats, responses, rejected,
                    capacity >>
    /\ UNCHANGED << page, concurrentVars, configVars, purchaseVars >>

\* Task.find resolves; the tasks are aggregated and Project.find is issued
TasksResolve ==
    /\ pc = "awaitTasks"
    /\ tasks' \in SeqsUpTo(Tasks, Remaining(0))
    /\ taskStats' = TaskStats(tasks')
    /\ issued' = Append(issued, "projects")
    /\ pc' = "awaitProjects"
    /\ UNCHANGED << query, yearNum, monthNum, startDate, endDate, users,
                    projects, checklists, helpTickets, fmsStats,
                    checklistStats, helpTicketStats, responses, rejected,
                    capacity >>
    /\ UNCHANGED << page, concurrentVars, configVars, purchaseVars >>

\* Project.find resolves; the instances are aggregated and Checklist.find
\* is issued
ProjectsResolve ==
    /\ pc = "awaitProjects"
    /\ \E shape \in Shapes(Remaining(Len(tasks))) :
           \E steps \in [1..ShapeSteps(shape) -> Steps] :
               projects' = Instances(shape, steps)
    /\ fmsStats' = FmsStats(projects')
    /\ issued' = Append(issued, "checklists")
    /\ pc' = "awaitChecklists"
    /\ UNCHANGED << query, yearNum, monthNum, startDate, endDate, users,
                    tasks, checklists, helpTickets, taskStats,
                    checklistStats, helpTicketStats, responses, rejected,
                    capacity >>
    /\ UNCHANGED << page, concurrentVars, configVars, purchaseVars >>

\* Checklist.find resolves; the checklists are aggregated and
\* HelpTicket.find is issued
ChecklistsResolve ==
    /\ pc = "awaitChecklists"
    /\ checklists' \in SeqsUpTo(Checklists,
                   Remaining(Len(tasks) + ProjectsSize(projects)))
    /\ checklistStats' = ChecklistStats(checklists')
    /\ issued' = Append(issued, "helpTickets")
    /\ pc' = "awaitHelpTickets"
    /\ UNCHANGED << query, yearNum, monthNum, startDate, endDate, users,
                    tasks, projects, helpTickets, taskStats, fmsStats,
                    helpTicketStats, responses, rejected, capacity >>
    /\ UNCHANGED << page, concurrentVars, configVars, purchaseVars >>

\* HelpTicket.find resolves; the tickets are aggregated and the report is
\* sent
HelpTicketsResolve ==
    /\ pc = "awaitHelpTickets"
    /\ helpTickets' \in SeqsUpTo(HelpTickets,
                   Remaining(Len(tasks) + ProjectsSize(projects)
                             + Len(checklists)))
    /\ helpTicketStats' = HelpTicketStats(helpTickets')
    /\ responses' = Append(responses,
                           Response(200, ReportBody(helpTicketStats')))
    /\ pc' = "done"
    /\ UNCHANGED << query, yearNum, monthNum, startDate, endDate, users,
                    tasks, projects, checklists, taskStats, fmsStats,
                    checklistStats, issued, rejected, capacity >>
    /\ UNCHANGED << page, concurrentVars, configVars, purchaseVars >>

\* mutant of Catch: the rejection is logged and the handler goes on with
\* what the store answers next
CatchAndGoOn ==
    /\ pc \in {"awaitUsers", "awaitTasks", "awaitProjects", "awaitChecklists",
               "awaitHelpTickets"}
    /\ rejected = Undefined
    /\ rejected' = issued[Len(issued)]
    /\ UNCHANGED << pc, query, yearNum, monthNum, startDate, endDate, users,
                    tasks, projects, checklists, helpTickets, taskStats,
                    fmsStats, checklistStats, helpTicketStats, responses,
                    issued, capacity >>
    /\ UNCHANGED << page, concurrentVars, configVars, purchaseVars >>

Awaiting ==
    pc \in {"awaitUsers", "awaitTasks", "awaitProjects", "awaitChecklists",
            "awaitHelpTickets"}

\* the awaited query rejects: the catch block answers
Catch ==
    /\ Awaiting
    /\ rejected' = issued[Len(issued)]
    /\ responses' = Append(responses,
           Response(500, [success |-> FALSE, message |-> "Server error"]))
    /\ pc' = "done"
    /\ UNCHANGED << query, yearNum, monthNum, startDate, endDate, users,
                    tasks, projects, checklists, helpTickets, taskStats,
                    fmsStats, checklistStats, helpTicketStats, issued,
                    capacity >>
    /\ UNCHANGED << page, concurrentVars, configVars, purchaseVars >>

Next ==
    \/ Validate
    \/ UsersResolve
    \/ TasksResolve
    \/ ProjectsResolve
    \/ ChecklistsResolve
    \/ HelpTicketsResolve
    \/ Catch

Spec == Init /\ [][Next]_vars

\* every request text the validation may meet, with a store of
\* MaxPeriodRecords records
InitPeriod ==
    /\ InitWith(AllQueries, {MaxPeriodRecords}) /\ PageOff
    /\ ConcurrentOff /\ ConfigOff /\ PurchaseOff

SpecPeriod == InitPeriod /\ [][Next]_vars

\* the requests that pass the validation, each run up to its report
AcceptedQueries == { q \in CoreQueries : q.year.present /\ q.month.present }

InitReports ==
    /\ InitWith(AcceptedQueries, {MaxRecords}) /\ PageOff
    /\ ConcurrentOff /\ ConfigOff /\ PurchaseOff

\* the single request at rest: refused at once and never run
\* no request reaches the report handler
HandlerOff == InitWith({[year |-> Absent, month |-> Absent]}, {0})

ReportOff == HandlerOff /\ PageOff

SpecReports == InitReports /\ [][Next]_vars

-----------------------------------------------------------------------------
(* SEVERAL REPORT REQUESTS AT ONCE                                         *)
(*                                                                         *)
(* Node runs one handler at a time and switches between invocations at     *)
(* their awaits, so the invocations interleave action by action.  The      *)
(* store holds fixed documents; a query answers with the documents created *)
(* in the asked period.                                                    *)

\* report requests in flight together
MaxRequests == 2

\* documents of the store, all periods and collections together
MaxStoreRecords == 1

Requests == 1..MaxRequests

\* the bindings of one invocation of the handler, as a function over the
\* names declared so far: none at the start
NewFrame == EmptyObject

\* const <name> = <value>, for each field of the record bindings
Declare(frame, bindings) == bindings @@ frame

\* mutant of FrameOf: the bindings are declared once, at module level
FrameOfModule(r) == 1

\* every invocation of the handler creates bindings of its own
FrameOf(r) == r

Local(r) == frames[FrameOf(r)]

\* the requests of the concurrent runs: for February and for March 2024
ConcurrentQueries ==
    { [year |-> Param(<< "2", "0", "2", "4" >>), month |-> Param(<< "2" >>)],
      [year |-> Param(<< "2", "0", "2", "4" >>), month |-> Param(<< "3" >>)] }

\* the first instants of the months that hold documents
StoredMonths ==
    { getMonthRange(2024, 2).startDate, getMonthRange(2024, 3).startDate }

\* the documents a month may hold, one kind per collection
StoredTasks ==
    { [taskType |-> "one-time", status |-> "completed", assignedTo |-> "u1"] }

StoredProjects ==
    { [tasks |-> << [stepNo |-> Number(2), status |-> "In Progress",
                     who |-> "u1"] >>] }

StoredChecklists == { [status |-> "Submitted", assignedTo |-> "u1"] }

StoredTickets ==
    { [status |-> "CLOSED", assignedTo |-> "u1", raisedBy |-> Null] }

ContentsSize(c) ==
    Len(c.tasks) + Len(c.projects) + Len(c.checklists) + Len(c.helpTickets)

\* the documents created in one month, n at most
MonthContents(n) ==
    { c \in [tasks : SeqsUpTo(StoredTasks, n),
             projects : SeqsUpTo(StoredProjects, n),
             checklists : SeqsUpTo(StoredChecklists, n),
             helpTickets : SeqsUpTo(StoredTickets, n)] :
          ContentsSize(c) <= n }

RECURSIVE TotalSize(_, _)
TotalSize(created, months) ==
    IF months = {} THEN 0
    ELSE LET m == CHOOSE x \in months : TRUE
         IN  ContentsSize(created[m]) + TotalSize(created, months \ {m})

\* the stores of n documents at most
Stores(n) ==
    { [users |-> BaseDirectory, created |-> c] :
          c \in { d \in [StoredMonths -> MonthContents(n)] :
                      TotalSize(d, StoredMonths) <= n } }

\* Model.find({createdAt: {$gte: start, $lte: end}}): the documents of the
\* collection created within the range; every request of the model asks
\* for a whole month, which its first instant identifies
FindCreatedBetween(collection, start, end) ==
    IF start \in DOMAIN store.created
    THEN store.created[start][collection]
    ELSE << >>

InitConcurrent ==
    /\ ReportOff /\ ConfigOff /\ PurchaseOff
    /\ store \in Stores(MaxStoreRecords)
    /\ frames = [f \in Requests |-> NewFrame]
    /\ handlers \in [Requests ->
                        { [query |-> q, pc |-> "start", responses |-> << >>,
                           rejected |-> FALSE] : q \in ConcurrentQueries }]

\* the handler of request r up to its first await
ValidateOf(r) ==
    /\ handlers[r].pc = "start"
    /\ LET q == handlers[r].query
           f == FrameOf(r)
       IN  IF Not(q.year) \/ Not(q.month)
           THEN /\ handlers' = [handlers EXCEPT
                       ![r].responses = Append(@, Response(400,
                           [message |-> "Year and month are required"])),
                       ![r].pc = "done"]
                /\ UNCHANGED frames
           ELSE LET y == parseInt(q.year.text)
                    m == parseInt(q.month.text)
                IN  IF InvalidYearOrMonth(y, m)
                    THEN /\ frames' = [frames EXCEPT ![f] =
                                Declare(@, [yearNum |-> y, monthNum |-> m])]
                         /\ handlers' = [handlers EXCEPT
                                ![r].responses = Append(@, Response(400,
                                    [message |-> "Invalid year or month"])),
                                ![r].pc = "done"]
                    ELSE /\ frames' = [frames EXCEPT ![f] =
                                Declare(@,
                                    [yearNum |-> y, monthNum |-> m,
                                     startDate |->
                                         getMonthRange(y.val, m.val).startDate,
                                     endDate |->
                                         getMonthRange(y.val, m.val).endDate])]
                         /\ handlers' = [handlers EXCEPT ![r].pc = "awaitUsers"]
    /\ UNCHANGED << store, reportVars, configVars, purchaseVars >>

\* User.find of request r resolves; Task.find is issued
UsersResolveOf(r) ==
    /\ handlers[r].pc = "awaitUsers"
    /\ frames' = [frames EXCEPT ![FrameOf(r)] =
                      Declare(@, [users |-> store.users])]
    /\ handlers' = [handlers EXCEPT ![r].pc = "awaitTasks"]
    /\ UNCHANGED << store, reportVars, configVars, purchaseVars >>

\* Task.find of request r resolves; Project.find is issued
TasksResolveOf(r) ==
    /\ handlers[r].pc = "awaitTasks"
    /\ LET ts == FindCreatedBetween("tasks", Local(r).startDate,
                                    Local(r).endDate)
       IN  frames' = [frames EXCEPT ![FrameOf(r)] =
                          Declare(@, [tasks |-> ts,
                                      taskStats |-> TaskStats(ts)])]
    /\ handlers' = [handlers EXCEPT ![r].pc = "awaitProjects"]
    /\ UNCHANGED << store, reportVars, configVars, purchaseVars >>

\* Project.find of request r resolves; Checklist.find is issued
ProjectsResolveOf(r) ==
    /\ handlers[r].pc = "awaitProjects"
    /\ LET ps == FindCreatedBetween("projects", Local(r).startDate,
                                    Local(r).endDate)
       IN  frames' = [frames EXCEPT ![FrameOf(r)] =
                          Declare(@, [projects |-> ps,
                                      fmsStats |-> FmsStats(ps)])]
    /\ handlers' = [handlers EXCEPT ![r].pc = "awaitChecklists"]
    /\ UNCHANGED << store, reportVars, configVars, purchaseVars >>

\* Checklist.find of request r resolves; HelpTicket.find is issued
ChecklistsResolveOf(r) ==
    /\ handlers[r].pc = "awaitChecklists"
    /\ LET cs == FindCreatedBetween("checklists", Local(r).startDate,
                                    Local(r).endDate)
       IN  frames' = [frames EXCEPT ![FrameOf(r)] =
                          Declare(@, [checklists |-> cs,
                                      checklistStats |-> ChecklistStats(cs)])]
    /\ handlers' = [handlers EXCEPT ![r].pc = "awaitHelpTickets"]
    /\ UNCHANGED << store, reportVars, configVars, purchaseVars >>

\* HelpTicket.find of request r resolves; the report is sent
HelpTicketsResolveOf(r) ==
    /\ handlers[r].pc = "awaitHelpTickets"
    /\ LET hs == FindCreatedBetween("helpTickets", Local(r).startDate,
                                    Local(r).endDate)
       IN  frames' = [frames EXCEPT ![FrameOf(r)] =
                          Declare(@, [helpTickets |-> hs,
                                      helpTicketStats |->
                                          HelpTicketStats(hs)])]
    /\ handlers' = [handlers EXCEPT
           ![r].responses =
               Append(@, Response(200,
                   ReportDocument(frames'[FrameOf(r)],
                                  frames'[FrameOf(r)].helpTicketStats))),
           ![r].pc = "done"]
    /\ UNCHANGED << store, reportVars, configVars, purchaseVars >>

\* the awaited query of request r rejects: the catch block answers
CatchOf(r) ==
    /\ handlers[r].pc \in {"awaitUsers", "awaitTasks", "awaitProjects",
                           "awaitChecklists", "awaitHelpTickets"}
    /\ handlers' = [handlers EXCEPT
           ![r].rejected = TRUE,
           ![r].responses = Append(@, Response(500,
               [success |-> FALSE, message |-> "Server error"])),
           ![r].pc = "done"]
    /\ UNCHANGED << store, frames, reportVars, configVars, purchaseVars >>

NextConcurrent ==
    \E r \in Requests :
        \/ ValidateOf(r)
        \/ UsersResolveOf(r)
        \/ TasksResolveOf(r)
        \/ ProjectsResolveOf(r)
        \/ ChecklistsResolveOf(r)
        \/ HelpTicketsResolveOf(r)
        \/ CatchOf(r)

SpecConcurrent == InitConcurrent /\ [][NextConcurrent]_vars

-----------------------------------------------------------------------------
(* FMS DISPLAY CONFIGURATION                                               *)
(*                                                                         *)
(* GET and PUT /fms-display-config (server/routes/designations.js) call    *)
(* the statics getConfig and updateConfig of the model (server/models/     *)
(* FMSDisplayConfig.js).  Each store operation is atomic; the requests     *)
(* interleave at their awaits.                                             *)

\* requests of the two routes, in flight together or one after the other
MaxConfigCalls == 2

ConfigCalls == 1..MaxConfigCalls

\* the enum of the schema, also the list the PUT route accepts
DisplayModes == {"name", "designation", "both"}

\* what the body of a PUT may carry as displayMode
RequestedModes == DisplayModes \cup {Undefined, "initials"}

Roles == {"superadmin", "employee"}

\* the result of findOne on an empty collection
NotFound == 0

\* the ids of the stored users, and the ids a request may name
StoredUserIds == {"u1", "u2"}
UserIdParams == StoredUserIds \cup {"u9"}

\* what the body of PUT /users/:userId may carry as designation
Designations == {Undefined, "", "Manager"}

\* the User collection before any request
StoredUsers == [id \in StoredUserIds |-> [_id |-> id, designation |-> ""]]

\* a call not yet made; role is req.user.role and body is
\* req.body.displayMode of a PUT request
IdleCall ==
    [route |-> "none", pc |-> "idle", role |-> Undefined, body |-> Undefined,
     displayMode |-> Undefined, config |-> NotFound, userId |-> Undefined,
     designation |-> Undefined, responses |-> << >>]

\* mutant of IsSuperAdmin: any authenticated user passes
IsSuperAdminOrUser(role) == role # Undefined

\* req.user && req.user.role === 'superadmin'
IsSuperAdmin(role) == role = "superadmin"

\* the body of the 403 response of isSuperAdmin
AccessDenied ==
    [success |-> FALSE,
     message |-> "Access denied. Only Super Admin can manage designations."]

\* mutant of IsDisplayMode: any displayMode that is given passes
IsDisplayModeWhenGiven(mode) == mode # Undefined

\* ['name', 'designation', 'both'].includes(displayMode)
IsDisplayMode(mode) == mode \in DisplayModes

\* Model.findOne(): the first document of the collection (its position)
FindOne == IF configDocs = << >> THEN NotFound ELSE 1

ConfigBody(message, doc) ==
    [success |-> TRUE, message |-> message,
     config |-> [displayMode |-> doc.displayMode]]

InitConfig ==
    /\ ReportOff /\ ConcurrentOff /\ PurchaseOff
    /\ configDocs = << >>
    /\ userDocs = StoredUsers
    /\ configCalls = [c \in ConfigCalls |-> IdleCall]

\* GET /fms-display-config arrives: getConfig issues findOne
GetDisplayConfig(c) ==
    /\ configCalls[c].pc = "idle"
    /\ configCalls' = [configCalls EXCEPT ![c].route = "GET",
                                          ![c].pc = "awaitFindOne"]
    /\ UNCHANGED << configDocs, userDocs, reportVars, concurrentVars,
                    purchaseVars >>

\* PUT /fms-display-config arrives: isSuperAdmin, the check of displayMode,
\* then updateConfig issues findOne
PutDisplayConfig(c) ==
    /\ configCalls[c].pc = "idle"
    /\ \E role \in Roles, mode \in RequestedModes :
           IF ~IsSuperAdmin(role)
           THEN configCalls' = [configCalls EXCEPT
                    ![c].route = "PUT",
                    ![c].role = role,
                    ![c].body = mode,
                    ![c].responses = Append(@, Response(403, AccessDenied)),
                    ![c].pc = "done"]
           ELSE IF ~IsDisplayMode(mode)
           THEN configCalls' = [configCalls EXCEPT
                    ![c].route = "PUT",
                    ![c].role = role,
                    ![c].body = mode,
                    ![c].responses = Append(@, Response(400,
                        [success |-> FALSE,
                         message |-> "Invalid display mode. Must be: name, designation, or both"])),
                    ![c].pc = "done"]
           ELSE configCalls' = [configCalls EXCEPT
                    ![c].route = "PUT",
                    ![c].role = role,
                    ![c].body = mode,
                    ![c].displayMode = mode,
                    ![c].pc = "awaitFindOne"]
    /\ UNCHANGED << configDocs, userDocs, reportVars, concurrentVars,
                    purchaseVars >>

\* findOne resolves: getConfig returns the document or creates the default
\* one; updateConfig sets the mode on the document and saves it, or
\* creates a document with the mode
FindOneResolves(c) ==
    /\ configCalls[c].pc = "awaitFindOne"
    /\ LET config == FindOne
       IN  IF config = NotFound
           THEN configCalls' = [configCalls EXCEPT
                    ![c].config = config,
                    ![c].displayMode =
                        IF configCalls[c].route = "GET" THEN "name" ELSE @,
                    ![c].pc = "awaitCreate"]
           ELSE IF configCalls[c].route = "GET"
           THEN configCalls' = [configCalls EXCEPT
                    ![c].config = config,
                    ![c].responses = Append(@, Response(200,
                        [success |-> TRUE,
                         config |-> [displayMode |->
                                         configDocs[config].displayMode]])),
                    ![c].pc = "done"]
           ELSE configCalls' = [configCalls EXCEPT
                    ![c].config = config,
                    ![c].pc = "awaitSave"]
    /\ UNCHANGED << configDocs, userDocs, reportVars, concurrentVars,
                    purchaseVars >>

\* create resolves: a new document is in the collection
CreateResolves(c) ==
    /\ configCalls[c].pc = "awaitCreate"
    /\ configDocs' = Append(configDocs,
                            [displayMode |-> configCalls[c].displayMode])
    /\ configCalls' = [configCalls EXCEPT
           ![c].config = Len(configDocs'),
           ![c].responses = Append(@, Response(200,
               IF configCalls[c].route = "GET"
               THEN [success |-> TRUE,
                     config |-> [displayMode |-> configCalls[c].displayMode]]
               ELSE ConfigBody("Display configuration updated successfully",
                               [displayMode |-> configCalls[c].displayMode]))),
           ![c].pc = "done"]
    /\ UNCHANGED << userDocs, reportVars, concurrentVars, purchaseVars >>

\* save resolves: the document found carries the new mode
SaveResolves(c) ==
    /\ configCalls[c].pc = "awaitSave"
    /\ configDocs' = [configDocs EXCEPT
           ![configCalls[c].config].displayMode = configCalls[c].displayMode]
    /\ configCalls' = [configCalls EXCEPT
           ![c].responses = Append(@, Response(200,
               ConfigBody("Display configuration updated successfully",
                          [displayMode |-> configCalls[c].displayMode]))),
           ![c].pc = "done"]
    /\ UNCHANGED << userDocs, reportVars, concurrentVars, purchaseVars >>

\* the awaited store operation rejects: the catch block of the route answers
ConfigCatch(c) ==
    /\ configCalls[c].pc \in {"awaitFindOne", "awaitCreate", "awaitSave"}
    /\ configCalls' = [configCalls EXCEPT
           ![c].responses = Append(@, Response(500,
               [success |-> FALSE,
                message |-> IF configCalls[c].route = "GET"
                            THEN "Error fetching display configuration"
                            ELSE "Error updating display configuration"])),
           ![c].pc = "done"]
    /\ UNCHANGED << configDocs, userDocs, reportVars, concurrentVars,
                    purchaseVars >>

NextConfig ==
    \E c \in DOMAIN configCalls :
        \/ GetDisplayConfig(c)
        \/ PutDisplayConfig(c)
        \/ FindOneResolves(c)
        \/ CreateResolves(c)
        \/ SaveResolves(c)
        \/ ConfigCatch(c)

SpecConfig == InitConfig /\ [][NextConfig]_vars

\* a PUT /fms-display-config call answered after updateConfig created the
\* document at position config with the mode
CreatedByPut(mode, config) ==
    [route |-> "PUT", pc |-> "done", role |-> "superadmin", body |-> mode,
     displayMode |-> mode, config |-> config, userId |-> Undefined,
     designation |-> Undefined,
     responses |-> << Response(200,
         ConfigBody("Display configuration updated successfully",
                    [displayMode |-> mode])) >>]

\* a GET /fms-display-config call whose findOne found nothing and whose
\* create is awaited
CreatingDefault ==
    [route |-> "GET", pc |-> "awaitCreate", role |-> Undefined,
     body |-> Undefined, displayMode |-> "name", config |-> NotFound,
     userId |-> Undefined, designation |-> Undefined, responses |-> << >>]

\* the module after two GETs and a PUT that arrived together on the empty
\* collection: all three findOne calls found nothing, one getConfig has
\* created the default document and then updateConfig a second one; the
\* create of the other getConfig is still awaited. The PUT is call 0, the
\* waiting GET call -1; the other calls are still to come
InitAfterRace ==
    /\ ReportOff /\ ConcurrentOff /\ PurchaseOff
    /\ \E mode \in DisplayModes :
           /\ configDocs = << [displayMode |-> "name"],
                              [displayMode |-> mode] >>
           /\ userDocs = StoredUsers
           /\ configCalls =
                  [c \in {-1, 0} \cup ConfigCalls |->
                      IF c = 0 THEN CreatedByPut(mode, 2)
                      ELSE IF c = -1 THEN CreatingDefault
                      ELSE IdleCall]

SpecAfterRace == InitAfterRace /\ [][NextConfig]_vars

-----------------------------------------------------------------------------
(* The routes for the superadmin only *)

\* the body of the 403 response of the report router
SuperadminOnly == [message |-> "Access denied. Superadmin only."]

\* designation || ''
OrEmpty(designation) ==
    IF designation = Undefined \/ designation = "" THEN "" ELSE designation

\* the guard of the report router, before GET /data: next() hands the
\* request to the handler
ReportGuard(c) ==
    /\ configCalls[c].pc = "idle"
    /\ \E role \in Roles :
           IF role # "superadmin"
           THEN configCalls' = [configCalls EXCEPT
                    ![c].route = "GET /data",
                    ![c].role = role,
                    ![c].responses = Append(@, Response(403, SuperadminOnly)),
                    ![c].pc = "done"]
           ELSE configCalls' = [configCalls EXCEPT
                    ![c].route = "GET /data",
                    ![c].role = role,
                    ![c].pc = "handler"]
    /\ UNCHANGED << configDocs, userDocs, reportVars, concurrentVars,
                    purchaseVars >>

\* GET /users arrives: isSuperAdmin, then User.find() is issued
GetUsers(c) ==
    /\ configCalls[c].pc = "idle"
    /\ \E role \in Roles :
           IF ~IsSuperAdmin(role)
           THEN configCalls' = [configCalls EXCEPT
                    ![c].route = "GET /users",
                    ![c].role = role,
                    ![c].responses = Append(@, Response(403, AccessDenied)),
                    ![c].pc = "done"]
           ELSE configCalls' = [configCalls EXCEPT
                    ![c].route = "GET /users",
                    ![c].role = role,
                    ![c].pc = "awaitFind"]
    /\ UNCHANGED << configDocs, userDocs, reportVars, concurrentVars,
                    purchaseVars >>

\* User.find() resolves: the users are sent (the model keeps the
\* documents by id; their order by username is left out)
FindResolves(c) ==
    /\ configCalls[c].pc = "awaitFind"
    /\ configCalls' = [configCalls EXCEPT
           ![c].responses = Append(@, Response(200,
               [success |-> TRUE, users |-> userDocs])),
           ![c].pc = "done"]
    /\ UNCHANGED << configDocs, userDocs, reportVars, concurrentVars,
                    purchaseVars >>

\* PUT /users/:userId arrives: isSuperAdmin, then findById is issued
PutUser(c) ==
    /\ configCalls[c].pc = "idle"
    /\ \E role \in Roles, userId \in UserIdParams,
          designation \in Designations :
           IF ~IsSuperAdmin(role)
           THEN configCalls' = [configCalls EXCEPT
                    ![c].route = "PUT /users/:userId",
                    ![c].role = role,
                    ![c].responses = Append(@, Response(403, AccessDenied)),
                    ![c].pc = "done"]
           ELSE configCalls' = [configCalls EXCEPT
                    ![c].route = "PUT /users/:userId",
                    ![c].role = role,
                    ![c].userId = userId,
                    ![c].designation = designation,
                    ![c].pc = "awaitFindById"]
    /\ UNCHANGED << configDocs, userDocs, reportVars, concurrentVars,
                    purchaseVars >>

\* findById resolves: 404 when there is no such user, else the designation
\* is set on the document and save is issued
FindByIdResolves(c) ==
    /\ configCalls[c].pc = "awaitFindById"
    /\ IF configCalls[c].userId \notin DOMAIN userDocs
       THEN configCalls' = [configCalls EXCEPT
                ![c].responses = Append(@, Response(404,
                    [success |-> FALSE, message |-> "User not found"])),
                ![c].pc = "done"]
       ELSE configCalls' = [configCalls EXCEPT
                ![c].designation = OrEmpty(@),
                ![c].pc = "awaitUserSave"]
    /\ UNCHANGED << configDocs, userDocs, reportVars, concurrentVars,
                    purchaseVars >>

\* save resolves: the stored document carries the designation
UserSaveResolves(c) ==
    /\ configCalls[c].pc = "awaitUserSave"
    /\ userDocs' = [userDocs EXCEPT
           ![configCalls[c].userId].designation = configCalls[c].designation]
    /\ configCalls' = [configCalls EXCEPT
           ![c].responses = Append(@, Response(200,
               [success |-> TRUE,
                message |-> "Designation updated successfully",
                user |-> userDocs'[configCalls[c].userId]])),
           ![c].pc = "done"]
    /\ UNCHANGED << configDocs, reportVars, concurrentVars, purchaseVars >>

\* the awaited store operation rejects: the catch block of the route answers
UsersCatch(c) ==
    /\ configCalls[c].pc \in {"awaitFind", "awaitFindById", "awaitUserSave"}
    /\ configCalls' = [configCalls EXCEPT
           ![c].responses = Append(@, Response(500,
               [success |-> FALSE,
                message |-> IF configCalls[c].route = "GET /users"
                            THEN "Error fetching users"
                            ELSE "Error updating designation"])),
           ![c].pc = "done"]
    /\ UNCHANGED << configDocs, userDocs, reportVars, concurrentVars,
                    purchaseVars >>

NextGuarded ==
    \/ NextConfig
    \/ \E c \in DOMAIN configCalls :
           \/ ReportGuard(c)
           \/ GetUsers(c)
           \/ FindResolves(c)
           \/ PutUser(c)
           \/ FindByIdResolves(c)
           \/ UserSaveResolves(c)
           \/ UsersCatch(c)

SpecGuarded == InitConfig /\ [][NextGuarded]_vars

-----------------------------------------------------------------------------
(* PURCHASE DASHBOARD CACHE                                                *)
(*                                                                         *)
(* GET /dashboard and POST /refresh of server/routes/purchase.js share the *)
(* module variables dashboardCache and cacheTimestamp.  Each handler runs  *)
(* up to its await of getPurchaseDashboardData and, later, from the        *)
(* resolution or rejection of that call to its response; the clock moves   *)
(* between the actions.                                                    *)

\* requests of the two routes, in flight together or one after the other
MaxPurchaseRequests == 2

\* times the clock advances
MaxTicks == 3

PurchaseRequests == 1..MaxPurchaseRequests

\* the cache lifetime, in milliseconds
CACHE_DURATION == 5 * 60 * 1000

\* the clock advances by half the lifetime, so that a cache is seen at the
\* ages 0, 2.5, 5 and 7.5 minutes
TickMs == CACHE_DURATION \div 2

\* Date.now() when the first request may arrive
StartTime == 10 * CACHE_DURATION

\* what the spreadsheet service may return: the dashboard data of the sheet
\* as it is at the time of the call
SheetData == {"sheet v1", "sheet v2"}

IdlePurchaseRequest ==
    [route |-> "none", pc |-> "idle", now |-> 0, dashboardData |-> Null,
     responses |-> << >>]

\* mutant of CacheIsFresh: a cache of exactly the lifetime is still served
CacheIsFreshInclusive(now) ==
    dashboardCache # Null /\ (now - cacheTimestamp) <= CACHE_DURATION

\* dashboardCache && (now - cacheTimestamp) < CACHE_DURATION
CacheIsFresh(now) ==
    dashboardCache # Null /\ (now - cacheTimestamp) < CACHE_DURATION

\* Math.round(ms / 1000), for ms >= 0
RoundSeconds(ms) == (ms + 500) \div 1000

\* the body of the 500 response of GET /dashboard
Fallback ==
    [success |-> FALSE, message |-> "Unable to fetch data from Google Sheets",
     fallback |-> TRUE,
     metrics |-> [totalIndents |-> 0, approved |-> 0, pending |-> 0,
                  fullyIssued |-> 0, partiallyIssued |-> 0,
                  urgentCount |-> 0, normalCount |-> 0],
     storeStats |-> << >>, recentIndents |-> << >>, allIndents |-> << >>]

InitPurchase ==
    /\ ReportOff /\ ConcurrentOff /\ ConfigOff /\ SheetsOff
    /\ dashboardCache = Null
    /\ cacheTimestamp = 0
    /\ clock = StartTime
    /\ serviceCalls = 0
    /\ purchaseRequests = [r \in PurchaseRequests |-> IdlePurchaseRequest]

\* time passes
Tick ==
    /\ clock < StartTime + MaxTicks * TickMs
    /\ clock' = clock + TickMs
    /\ UNCHANGED << dashboardCache, cacheTimestamp, serviceCalls,
                    purchaseRequests, sheets, reportVars, concurrentVars, configVars >>

\* GET /dashboard arrives: answered from a fresh cache, else the service
\* is called
DashboardArrives(r) ==
    /\ purchaseRequests[r].pc = "idle"
    /\ LET now == clock
       IN  IF CacheIsFresh(now)
           THEN /\ purchaseRequests' = [purchaseRequests EXCEPT
                       ![r].route = "dashboard",
                       ![r].now = now,
                       ![r].responses =
                           Append(@, Response(200, dashboardCache)),
                       ![r].pc = "done"]
                /\ UNCHANGED serviceCalls
           ELSE /\ purchaseRequests' = [purchaseRequests EXCEPT
                       ![r].route = "dashboard",
                       ![r].now = now,
                       ![r].pc = "awaitService"]
                /\ serviceCalls' = serviceCalls + 1
    /\ UNCHANGED << dashboardCache, cacheTimestamp, clock, sheets, reportVars,
                    concurrentVars, configVars >>

\* mutant of DashboardResolves: the cache is written only when it holds
\* nothing written under a later time
DashboardResolvesIfNewer(r) ==
    /\ purchaseRequests[r].pc = "awaitService"
    /\ purchaseRequests[r].route = "dashboard"
    /\ \E dashboardData \in SheetData :
           /\ IF cacheTimestamp <= purchaseRequests[r].now
              THEN /\ dashboardCache' = dashboardData
                   /\ cacheTimestamp' = purchaseRequests[r].now
              ELSE UNCHANGED << dashboardCache, cacheTimestamp >>
           /\ purchaseRequests' = [purchaseRequests EXCEPT
                  ![r].dashboardData = dashboardData,
                  ![r].responses = Append(@, Response(200, dashboardData)),
                  ![r].pc = "done"]
    /\ UNCHANGED << clock, serviceCalls, sheets, reportVars, concurrentVars,
                    configVars >>

\* the service answers GET /dashboard: the data is cached under the time
\* read when the request arrived, and sent
DashboardResolves(r) ==
    /\ purchaseRequests[r].pc = "awaitService"
    /\ purchaseRequests[r].route = "dashboard"
    /\ \E dashboardData \in SheetData :
           /\ dashboardCache' = dashboardData
           /\ cacheTimestamp' = purchaseRequests[r].now
           /\ purchaseRequests' = [purchaseRequests EXCEPT
                  ![r].dashboardData = dashboardData,
                  ![r].responses = Append(@, Response(200, dashboardData)),
                  ![r].pc = "done"]
    /\ UNCHANGED << clock, serviceCalls, sheets, reportVars, concurrentVars,
                    configVars >>

\* mutant of DashboardCatch: only a cache younger than the lifetime is
\* sent when the service fails
DashboardCatchFreshOnly(r) ==
    /\ purchaseRequests[r].pc = "awaitService"
    /\ purchaseRequests[r].route = "dashboard"
    /\ purchaseRequests' = [purchaseRequests EXCEPT
           ![r].responses = Append(@,
               IF CacheIsFresh(clock)
               THEN Response(200,
                        [data |-> dashboardCache, cached |-> TRUE,
                         cacheAge |-> RoundSeconds(clock - cacheTimestamp)])
               ELSE Response(500, Fallback)),
           ![r].pc = "done"]
    /\ UNCHANGED << dashboardCache, cacheTimestamp, clock, serviceCalls,
                    sheets, reportVars, concurrentVars, configVars >>

\* the service fails GET /dashboard: whatever is cached is sent, marked as
\* cached, and without a cache the fallback goes out with status 500
DashboardCatch(r) ==
    /\ purchaseRequests[r].pc = "awaitService"
    /\ purchaseRequests[r].route = "dashboard"
    /\ purchaseRequests' = [purchaseRequests EXCEPT
           ![r].responses = Append(@,
               IF dashboardCache # Null
               THEN Response(200,
                        [data |-> dashboardCache, cached |-> TRUE,
                         cacheAge |-> RoundSeconds(clock - cacheTimestamp)])
               ELSE Response(500, Fallback)),
           ![r].pc = "done"]
    /\ UNCHANGED << dashboardCache, cacheTimestamp, clock, serviceCalls,
                    sheets, reportVars, concurrentVars, configVars >>

\* mutant of RefreshArrives: the cached data stays until the service has
\* answered
RefreshArrivesKeepsCache(r) ==
    /\ purchaseRequests[r].pc = "idle"
    /\ serviceCalls' = serviceCalls + 1
    /\ purchaseRequests' = [purchaseRequests EXCEPT
           ![r].route = "refresh",
           ![r].pc = "awaitService"]
    /\ UNCHANGED << dashboardCache, cacheTimestamp, clock, sheets, reportVars,
                    concurrentVars, configVars >>

\* POST /refresh arrives: the cache is cleared and the service is called
RefreshArrives(r) ==
    /\ purchaseRequests[r].pc = "idle"
    /\ dashboardCache' = Null
    /\ cacheTimestamp' = 0
    /\ serviceCalls' = serviceCalls + 1
    /\ purchaseRequests' = [purchaseRequests EXCEPT
           ![r].route = "refresh",
           ![r].pc = "awaitService"]
    /\ UNCHANGED << clock, sheets, reportVars, concurrentVars, configVars >>

\* the service answers POST /refresh: the data is cached under the
\* current time, and sent
RefreshResolves(r) ==
    /\ purchaseRequests[r].pc = "awaitService"
    /\ purchaseRequests[r].route = "refresh"
    /\ \E dashboardData \in SheetData :
           /\ dashboardCache' = dashboardData
           /\ cacheTimestamp' = clock
           /\ purchaseRequests' = [purchaseRequests EXCEPT
                  ![r].dashboardData = dashboardData,
                  ![r].responses = Append(@, Response(200,
                      [success |-> TRUE,
                       message |-> "Dashboard data refreshed",
                       data |-> dashboardData])),
                  ![r].pc = "done"]
    /\ UNCHANGED << clock, serviceCalls, sheets, reportVars, concurrentVars,
                    configVars >>

\* the service fails POST /refresh
RefreshCatch(r) ==
    /\ purchaseRequests[r].pc = "awaitService"
    /\ purchaseRequests[r].route = "refresh"
    /\ purchaseRequests' = [purchaseRequests EXCEPT
           ![r].responses = Append(@, Response(500,
               [success |-> FALSE, message |-> "Unable to refresh data"])),
           ![r].pc = "done"]
    /\ UNCHANGED << dashboardCache, cacheTimestamp, clock, serviceCalls,
                    sheets, reportVars, concurrentVars, configVars >>

NextPurchase ==
    \/ Tick
    \/ \E r \in DOMAIN purchaseRequests :
           \/ DashboardArrives(r)
           \/ DashboardResolves(r)
           \/ DashboardCatch(r)
           \/ RefreshArrives(r)
           \/ RefreshResolves(r)
           \/ RefreshCatch(r)

SpecPurchase == InitPurchase /\ [][NextPurchase]_vars

\* a GET /dashboard request that arrived at StartTime, when nothing was
\* cached, and whose service call has not been answered yet
InFlightDashboardRequest ==
    [route |-> "dashboard", pc |-> "awaitService", now |-> StartTime,
     dashboardData |-> Null, responses |-> << >>]

\* the module after DashboardArrives and Tick: one request, numbered 0, is
\* in flight and time has passed since it arrived; the other requests are
\* still to come
InitInFlight ==
    /\ ReportOff /\ ConcurrentOff /\ ConfigOff /\ SheetsOff
    /\ dashboardCache = Null
    /\ cacheTimestamp = 0
    /\ clock = StartTime + TickMs
    /\ serviceCalls = 1
    /\ purchaseRequests =
           [r \in {0} \cup PurchaseRequests |->
               IF r = 0 THEN InFlightDashboardRequest
               ELSE IdlePurchaseRequest]

SpecInFlight == InitInFlight /\ [][NextPurchase]_vars

-----------------------------------------------------------------------------
(* getPurchaseDashboardData: the indent records and their counts *)

MaxRows == 2

\* the cells of a data row that the counts depend on. A cell of text is a
\* string, Undefined when the row has no such cell; a cell that is read as
\* a number is a query-string-like parameter, its text a sequence of
\* characters
StoreNameCells == {Undefined, "Main", "constructor"}
IndentNumberCells == {Undefined, "IN-1"}
PartiallyIssuedCells == {Undefined, "Not Issued", "Yes"}
QtyIssuedCells == {Absent, Param(<< "3" >>)}
PendingCells == {Absent, Param(<< "2" >>)}

Rows ==
    [storeName : StoreNameCells, indentNumber : IndentNumberCells,
     partiallyIssued : PartiallyIssuedCells, qtyIssued : QtyIssuedCells,
     pending : PendingCells]

\* what fetchIndentSummary returns: without the summary rows, and with them
Summaries ==
    { [totalIndents |-> 0, approved |-> 0, pending |-> 0],
      [totalIndents |-> 78, approved |-> 64, pending |-> 14] }

\* getVal for a cell of text: (idx >= 0 && row[idx]) ? row[idx] : ''
getVal(cell) == IF cell = Undefined \/ cell = "" THEN "" ELSE cell

\* getVal for a cell read as a number
getText(cell) == IF cell.present THEN cell.text ELSE << >>

\* parseInt(val) || 0
getNumVal(cell) ==
    LET n == parseInt(getText(cell))
    IN  IF isNaN(n) THEN 0 ELSE n.val

\* the status of a record, from partially issued, pending and qty issued
IndentStatus(partiallyIssued, pending, qtyIssued) ==
    IF partiallyIssued # "" /\ partiallyIssued # "Not Issued" /\ pending = 0
    THEN "Fully Issued"
    ELSE IF qtyIssued > 0 /\ pending > 0 THEN "Partially Issued"
    ELSE IF pending = 0 /\ qtyIssued > 0 THEN "Fully Issued"
    ELSE "Pending"

\* the record of the data row at position index (from 0) of rows.slice(1)
ParseRow(row, index) ==
    LET partiallyIssued == getVal(row.partiallyIssued)
        pending == getNumVal(row.pending)
        qtyIssued == getNumVal(row.qtyIssued)
    IN  [id |-> index + 1,
         storeName |-> getVal(row.storeName),
         indentNumber |-> getVal(row.indentNumber),
         partiallyIssued |-> partiallyIssued,
         qtyIssued |-> qtyIssued,
         pending |-> pending,
         status |-> IndentStatus(partiallyIssued, pending, qtyIssued)]

\* rows.slice(1).map(...).filter(record => record.indentNumber)
ParseRecords(rows) ==
    SelectSeq([i \in 1..Len(rows) |-> ParseRow(rows[i], i - 1)],
              LAMBDA record : record.indentNumber # "")

\* records.filter(r => r.status === status).length
CountStatus(records, status) ==
    Len(SelectSeq(records, LAMBDA r : r.status = status))

\* names that every object inherits from Object.prototype: storeStats[name]
\* is the inherited member, an object, when storeStats has no own property
\* of the name
ObjectPrototypeNames ==
    {"constructor", "toString", "valueOf", "hasOwnProperty", "__proto__"}

\* the position in storeStats of the own property named store, 0 for none
RECURSIVE OwnIndexFrom(_, _, _)
OwnIndexFrom(storeStats, storeKey, i) ==
    IF i > Len(storeStats) THEN 0
    ELSE IF storeStats[i].name = storeKey THEN i
    ELSE OwnIndexFrom(storeStats, storeKey, i + 1)

\* the counts of one record
StoreCounts(record) ==
    [total |-> 1,
     pending |-> IF record.status = "Pending" THEN 1 ELSE 0,
     issued |-> IF record.status = "Pending" THEN 0 ELSE 1]

\* one step of records.forEach: storeStats is the list of the own
\* properties in insertion order, as Object.entries gives them. When
\* storeStats[store] is an inherited member, nothing is created and the
\* increments go to that member, which is no property of storeStats
StoreStep(storeStats, record) ==
    LET storeKey == IF record.storeName = "" THEN "Unknown" ELSE record.storeName
        i == OwnIndexFrom(storeStats, storeKey, 1)
        counts == StoreCounts(record)
    IN  IF i # 0
        THEN [storeStats EXCEPT
                 ![i].total = @ + counts.total,
                 ![i].pending = @ + counts.pending,
                 ![i].issued = @ + counts.issued]
        ELSE IF storeKey \in ObjectPrototypeNames THEN storeStats
        ELSE Append(storeStats, [name |-> storeKey] @@ counts)

RECURSIVE StoreStatsFrom(_, _, _)
StoreStatsFrom(records, i, storeStats) ==
    IF i > Len(records) THEN storeStats
    ELSE StoreStatsFrom(records, i + 1, StoreStep(storeStats, records[i]))

\* a || b for numbers
OrNumber(a, b) == IF a = 0 THEN b ELSE a

\* what getPurchaseDashboardData returns (the counts by nature are left
\* out, as is the column they are read from)
DashboardData(summary, records) ==
    LET fullyIssued == CountStatus(records, "Fully Issued")
        partiallyIssued == CountStatus(records, "Partially Issued")
        pending == CountStatus(records, "Pending")
    IN  [success |-> TRUE,
         metrics |->
             [totalIndents |-> OrNumber(summary.totalIndents, Len(records)),
              approved |->
                  OrNumber(summary.approved, fullyIssued + partiallyIssued),
              pending |-> OrNumber(summary.pending, pending),
              fullyIssued |-> fullyIssued,
              partiallyIssued |-> partiallyIssued],
         storeStats |-> StoreStatsFrom(records, 1, << >>),
         recentIndents |->
             SubSeq(records, 1, IF Len(records) < 10 THEN Len(records) ELSE 10),
         allIndents |-> records]

InitSheets ==
    /\ ReportOff /\ ConcurrentOff /\ ConfigOff /\ RoutesOff
    /\ \E summary \in Summaries, rows \in SeqsUpTo(Rows, MaxRows) :
           sheets = [pc |-> "start", summary |-> summary, rows |-> rows,
                     records |-> << >>, dashboardData |-> Null]

\* fetchIndentSummary and fetchIndentRecords resolve: the records are parsed
FetchIndentRecords ==
    /\ sheets.pc = "start"
    /\ sheets' = [sheets EXCEPT !.records = ParseRecords(sheets.rows),
                                !.pc = "fetched"]
    /\ UNCHANGED << dashboardCache, cacheTimestamp, clock, serviceCalls,
                    purchaseRequests, reportVars, concurrentVars, configVars >>

\* getPurchaseDashboardData counts and returns
GetPurchaseDashboardData ==
    /\ sheets.pc = "fetched"
    /\ sheets' = [sheets EXCEPT
           !.dashboardData = DashboardData(sheets.summary, sheets.records),
           !.pc = "done"]
    /\ UNCHANGED << dashboardCache, cacheTimestamp, clock, serviceCalls,
                    purchaseRequests, reportVars, concurrentVars, configVars >>

NextSheets == FetchIndentRecords \/ GetPurchaseDashboardData

SpecSheets == InitSheets /\ [][NextSheets]_vars

-----------------------------------------------------------------------------
(* The report page of the browser: fetchReportData *)

MaxFetches == 3

\* new Date() when the page is opened
Today == Date(2024, 0, 15, 10, 30, 0, 0)

\* what the month input, shown to a superadmin, may be set to: year and
\* month of "yyyy-MM"
MonthValues ==
    { [year |-> 2024, month |-> 2], [year |-> 2024, month |-> 3] }

\* getYear and getMonth of date-fns
getYear(date) == date.year
getMonth(date) == date.month

\* useState(null)
NoReport == [success |-> FALSE, period |-> [null |-> TRUE]]

\* the state of the component before its first effect
Unmounted(role) ==
    [mounted |-> FALSE, role |-> role, selectedMonth |-> Today,
     reportData |-> NoReport, loading |-> FALSE, error |-> Null,
     requests |-> << >>]

\* response.data of the report route for the parameters of a request
ReportFor(request) ==
    [success |-> TRUE,
     period |-> [year |-> request.year, month |-> request.month]]

\* fetchReportData up to its await: loading is set, the error is cleared
\* and the request for the selected month is sent
Fetched(p) ==
    [p EXCEPT
        !.loading = TRUE,
        !.error = Null,
        !.requests = Append(@,
            [year |-> getYear(p.selectedMonth),
             month |-> getMonth(p.selectedMonth) + 1,
             status |-> "inFlight"])]

\* the effect on selectedMonth, user and fetchReportData
Effect(p) == IF p.role = "superadmin" THEN Fetched(p) ELSE p

InitPage ==
    /\ HandlerOff /\ ConcurrentOff /\ ConfigOff /\ PurchaseOff
    /\ \E role \in Roles : page = Unmounted(role)

\* the component is mounted: the effect runs for the first time
Mount ==
    /\ ~page.mounted
    /\ page' = Effect([page EXCEPT !.mounted = TRUE])
    /\ UNCHANGED << pc, query, yearNum, monthNum, startDate, endDate, users,
                    tasks, projects, checklists, helpTickets, taskStats,
                    fmsStats, checklistStats, helpTicketStats, responses,
                    issued, rejected, capacity, concurrentVars, configVars,
                    purchaseVars >>

\* the month input changes: setSelectedMonth, then the effect runs again
SelectMonth ==
    /\ page.mounted
    /\ page.role = "superadmin"
    /\ Len(page.requests) < MaxFetches
    /\ \E value \in MonthValues :
           LET date == Date(value.year, value.month - 1, 1, 0, 0, 0, 0)
           IN  /\ date # page.selectedMonth
               /\ page' = Effect([page EXCEPT !.selectedMonth = date])
    /\ UNCHANGED << pc, query, yearNum, monthNum, startDate, endDate, users,
                    tasks, projects, checklists, helpTickets, taskStats,
                    fmsStats, checklistStats, helpTicketStats, responses,
                    issued, rejected, capacity, concurrentVars, configVars,
                    purchaseVars >>

\* the Refresh button, disabled while loading: fetchReportData runs again
Refresh ==
    /\ page.mounted
    /\ page.role = "superadmin"
    /\ ~page.loading
    /\ Len(page.requests) < MaxFetches
    /\ page' = Fetched(page)
    /\ UNCHANGED << pc, query, yearNum, monthNum, startDate, endDate, users,
                    tasks, projects, checklists, helpTickets, taskStats,
                    fmsStats, checklistStats, helpTicketStats, responses,
                    issued, rejected, capacity, concurrentVars, configVars,
                    purchaseVars >>

\* the response of request k arrives: its data is shown, loading is cleared
ResponseArrives(k) ==
    /\ page.mounted
    /\ k \in 1..Len(page.requests)
    /\ page.requests[k].status = "inFlight"
    /\ page' = [page EXCEPT
           !.reportData = ReportFor(page.requests[k]),
           !.loading = FALSE,
           !.requests[k].status = "ok"]
    /\ UNCHANGED << pc, query, yearNum, monthNum, startDate, endDate, users,
                    tasks, projects, checklists, helpTickets, taskStats,
                    fmsStats, checklistStats, helpTicketStats, responses,
                    issued, rejected, capacity, concurrentVars, configVars,
                    purchaseVars >>

\* request k fails: the error is set, loading is cleared
ResponseFails(k) ==
    /\ page.mounted
    /\ k \in 1..Len(page.requests)
    /\ page.requests[k].status = "inFlight"
    /\ page' = [page EXCEPT
           !.error = "Failed to load report data",
           !.loading = FALSE,
           !.requests[k].status = "failed"]
    /\ UNCHANGED << pc, query, yearNum, monthNum, startDate, endDate, users,
                    tasks, projects, checklists, helpTickets, taskStats,
                    fmsStats, checklistStats, helpTicketStats, responses,
                    issued, rejected, capacity, concurrentVars, configVars,
                    purchaseVars >>

NextPage ==
    \/ Mount
    \/ SelectMonth
    \/ Refresh
    \/ \E k \in 1..MaxFetches :
           \/ ResponseArrives(k)
           \/ ResponseFails(k)

SpecPage == InitPage /\ [][NextPage]_vars

-----------------------------------------------------------------------------
(* Vocabulary of the properties *)

\* the report has been sent
ReportSent ==
    pc = "done" /\ Len(responses) = 1 /\ responses[1].status = 200

Report == responses[1].body

RECURSIVE SumValues(_, _)
SumValues(f, keys) ==
    IF keys = {} THEN 0
    ELSE LET k == CHOOSE x \in keys : TRUE
         IN  f[k] + SumValues(f, keys \ {k})

\* the sum of all the buckets of a histogram
SumBuckets(histogram) == SumValues(histogram, DOMAIN histogram)

\* the sum of the totals of the person records
SumTotals(byPerson) ==
    SumValues([i \in 1..Len(byPerson) |-> byPerson[i].total],
              1..Len(byPerson))

\* the number of positions of a sequence that satisfy a predicate
Count(array, pred(_)) == Cardinality({ i \in 1..Len(array) : pred(array[i]) })

\* the steps of all the fetched instances, in stored order
RECURSIVE AllSteps(_)
AllSteps(ps) ==
    IF ps = << >> THEN << >> ELSE Head(ps).tasks \o AllSteps(Tail(ps))

\* the statuses a help ticket is counted under, after lower-casing
NamedTicketStatuses == {"open", "in progress", "closed", "verified & closed"}

\* a ticket whose status, lower-cased, is none of the named ones
IsOtherTicket(ticket) ==
    /\ ticket.status # Undefined
    /\ toLowerCase(ticket.status) \notin NamedTicketStatuses

\* an instance counted neither as completed nor as in progress
IsIdleInstance(project) ==
    /\ \E i \in 1..Len(project.tasks) : project.tasks[i].status # "Done"
    /\ \A i \in 1..Len(project.tasks) :
           project.tasks[i].status \notin {"Pending", "In Progress"}

\* the fields of a task person record that are not status buckets
TaskPersonFields ==
    {"userId", "username", "email", "total", "oneOff", "cyclic"}

-----------------------------------------------------------------------------
(* C1 *)

\* C1 as stated: in every report each aggregate's total equals the sum of
\* its histogram buckets (tasks: sum of byStatus and sum of byType; fms:
\* inProgress + completed; checklists: done + notDone; helpTickets:
\* open + in-progress + closed).
C1_TotalIsSumOfBuckets ==
    ReportSent =>
        /\ Report.tasks.total = SumBuckets(Report.tasks.byStatus)
        /\ Report.tasks.total = SumBuckets(Report.tasks.byType)
        /\ Report.fms.total = Report.fms.inProgress + Report.fms.completed
        /\ Report.checklists.total =
               Report.checklists.done + Report.checklists.notDone
        /\ Report.helpTickets.total =
               Report.helpTickets.open + Report.helpTickets["in-progress"]
               + Report.helpTickets.closed

\* C1 amended: each total is the number of fetched records; the buckets sum
\* to the total less the records that no bucket counts: tasks without a
\* status (resp. without a taskType), instances that are not all Done and
\* have no Pending or In Progress step, tickets whose lower-cased status is
\* none of the named ones.  Dynamically added buckets are part of the sums,
\* and checklists have no uncounted record.
C1_TotalIsSumOfBucketsPlusUncounted ==
    ReportSent =>
        /\ Report.tasks.total = Len(tasks)
        /\ Report.tasks.total =
               SumBuckets(Report.tasks.byStatus)
               + Count(tasks, LAMBDA t : t.status = Undefined)
        /\ Report.tasks.total =
               SumBuckets(Report.tasks.byType)
               + Count(tasks, LAMBDA t : t.taskType = Undefined)
        /\ Report.fms.total = Len(projects)
        /\ Report.fms.total =
               Report.fms.inProgress + Report.fms.completed
               + Count(projects, IsIdleInstance)
        /\ Report.checklists.total = Len(checklists)
        /\ Report.checklists.total =
               Report.checklists.done + Report.checklists.notDone
        /\ Report.helpTickets.total = Len(helpTickets)
        /\ Report.helpTickets.total =
               Report.helpTickets.open + Report.helpTickets["in-progress"]
               + Report.helpTickets.closed
               + Count(helpTickets, IsOtherTicket)

\* a report over two tasks, one of them under a dynamically added status
\* bucket and one without a status
C1_Witness ==
    /\ ReportSent
    /\ Report.tasks.total = 2
    /\ "on-hold" \in DOMAIN Report.tasks.byStatus
    /\ SumBuckets(Report.tasks.byStatus) = 1

-----------------------------------------------------------------------------
(* C2 *)

\* the person a help ticket is attributed to: assignedTo, else raisedBy
Attributed(ticket) ==
    IF ticket.assignedTo # Null THEN ticket.assignedTo ELSE ticket.raisedBy

\* C2 as stated: for each of the four aggregates, total = (sum of the
\* byPerson totals) + (number of fetched records with no resolvable
\* assignee); for fms the records are the instances, and an instance has no
\* resolvable assignee when none of its steps has a resolved who.
C2_TotalIsPersonsPlusUnassigned ==
    ReportSent =>
        /\ Report.tasks.total =
               SumTotals(Report.tasks.byPerson)
               + Count(tasks, LAMBDA t : t.assignedTo = Null)
        /\ Report.fms.total =
               SumTotals(Report.fms.byPerson)
               + Count(projects,
                       LAMBDA q : \A i \in 1..Len(q.tasks) :
                                      q.tasks[i].who = Null)
        /\ Report.checklists.total =
               SumTotals(Report.checklists.byPerson)
               + Count(checklists, LAMBDA c : c.assignedTo = Null)
        /\ Report.helpTickets.total =
               SumTotals(Report.helpTickets.byPerson)
               + Count(helpTickets, LAMBDA h : Attributed(h) = Null)

\* C2 amended: for tasks, checklists and help tickets, total = (sum of the
\* byPerson totals) + (number of fetched records with no resolvable
\* person; for a ticket, neither assignedTo nor raisedBy).  The fms person
\* records count steps, not instances: the sum of their totals is the
\* number of steps with a resolved who over all fetched instances.
C2_PersonTotalsAccountForRecords ==
    ReportSent =>
        /\ Report.tasks.total =
               SumTotals(Report.tasks.byPerson)
               + Count(tasks, LAMBDA t : t.assignedTo = Null)
        /\ SumTotals(Report.fms.byPerson) =
               Count(AllSteps(projects), LAMBDA t : t.who # Null)
        /\ Report.checklists.total =
               SumTotals(Report.checklists.byPerson)
               + Count(checklists, LAMBDA c : c.assignedTo = Null)
        /\ Report.helpTickets.total =
               SumTotals(Report.helpTickets.byPerson)
               + Count(helpTickets, LAMBDA h : Attributed(h) = Null)

\* a report over an assigned and an unassigned task, or over one instance
\* with two steps of the same person
C2_Witness ==
    /\ ReportSent
    /\ \/ /\ Report.tasks.total = 2
          /\ SumTotals(Report.tasks.byPerson) = 1
       \/ /\ Report.fms.total = 1
          /\ Len(Report.fms.byPerson) = 1
          /\ SumTotals(Report.fms.byPerson) = 2

-----------------------------------------------------------------------------
(* C3 *)

TaskPersonBuckets(person) ==
    SumValues(person, DOMAIN person \ TaskPersonFields)

TicketPersonBuckets(person) ==
    person.open + person["in-progress"] + person.closed

\* C3 as stated: in every report, every person record's total equals the
\* sum of its status buckets (tasks: every status bucket of the record;
\* fms: inProgress + completed + length of pendingSteps; checklists:
\* done + notDone; helpTickets: open + in-progress + closed).
C3_PersonTotalIsSumOfBuckets ==
    ReportSent =>
        /\ \A i \in 1..Len(Report.tasks.byPerson) :
               LET person == Report.tasks.byPerson[i]
               IN  person.total = TaskPersonBuckets(person)
        /\ \A i \in 1..Len(Report.fms.byPerson) :
               LET person == Report.fms.byPerson[i]
               IN  person.total = person.inProgress + person.completed
                                  + Len(person.pendingSteps)
        /\ \A i \in 1..Len(Report.checklists.byPerson) :
               LET person == Report.checklists.byPerson[i]
               IN  person.total = person.done + person.notDone
        /\ \A i \in 1..Len(Report.helpTickets.byPerson) :
               LET person == Report.helpTickets.byPerson[i]
               IN  person.total = TicketPersonBuckets(person)

\* C3 amended: the fms and checklist person records are as stated; a task
\* person record's total is the sum of its status buckets plus the number of
\* that person's tasks without a status; a help-ticket person record's total
\* is open + in-progress + closed plus the number of that person's tickets
\* whose lower-cased status is none of the named ones.
C3_PersonTotalIsSumOfBucketsPlusUncounted ==
    ReportSent =>
        /\ \A i \in 1..Len(Report.tasks.byPerson) :
               LET person == Report.tasks.byPerson[i]
               IN  person.total =
                       TaskPersonBuckets(person)
                       + Count(tasks, LAMBDA t : /\ t.assignedTo = person.userId
                                                 /\ t.status = Undefined)
        /\ \A i \in 1..Len(Report.fms.byPerson) :
               LET person == Report.fms.byPerson[i]
               IN  person.total = person.inProgress + person.completed
                                  + Len(person.pendingSteps)
        /\ \A i \in 1..Len(Report.checklists.byPerson) :
               LET person == Report.checklists.byPerson[i]
               IN  person.total = person.done + person.notDone
        /\ \A i \in 1..Len(Report.helpTickets.byPerson) :
               LET person == Report.helpTickets.byPerson[i]
               IN  person.total =
                       TicketPersonBuckets(person)
                       + Count(helpTickets,
                               LAMBDA h : /\ Attributed(h) = person.userId
                                          /\ IsOtherTicket(h))

\* a person with two tickets, one closed and one under no named status
C3_Witness ==
    /\ ReportSent
    /\ \E i \in 1..Len(Report.helpTickets.byPerson) :
           LET person == Report.helpTickets.byPerson[i]
           IN  /\ person.total = 2
               /\ person.closed = 1
               /\ TicketPersonBuckets(person) = 1

-----------------------------------------------------------------------------
(* C4 *)

\* C4: fms.completed is the number of fetched instances all of whose steps
\* are Done; fms.inProgress is the number of the other instances that have a
\* Pending or In Progress step; an instance with only Not Started steps is in
\* neither, no instance is in both, and completed + inProgress <= total.
C4_InstanceClassification ==
    ReportSent =>
        /\ Report.fms.completed =
               Count(projects,
                     LAMBDA q : \A i \in 1..Len(q.tasks) :
                                    q.tasks[i].status = "Done")
        /\ Report.fms.inProgress =
               Count(projects,
                     LAMBDA q : /\ \E i \in 1..Len(q.tasks) :
                                       q.tasks[i].status # "Done"
                                /\ \E i \in 1..Len(q.tasks) :
                                       q.tasks[i].status
                                           \in {"Pending", "In Progress"})
        /\ Report.fms.completed + Report.fms.inProgress <= Report.fms.total

\* a report over two instances, one with only Not Started steps, which no
\* counter counts, and one in progress
C4_Witness ==
    /\ ReportSent
    /\ Len(projects) = 2
    /\ \E i \in 1..2 : /\ projects[i].tasks # << >>
                       /\ \A j \in 1..Len(projects[i].tasks) :
                              projects[i].tasks[j].status = "Not Started"
    /\ Report.fms.inProgress = 1
    /\ Report.fms.completed = 0

-----------------------------------------------------------------------------
(* C5 *)

PendingStatuses == {"Pending", "In Progress", "Not Started"}

\* the key an instance is counted under in stepStatusBreakdown: the step
\* number (0 when absent) of the step that has a pending status while no
\* step before it has one
IsCountedUnder(project, key) ==
    \E i \in 1..Len(project.tasks) :
        /\ project.tasks[i].status \in PendingStatuses
        /\ \A j \in 1..(i - 1) : project.tasks[j].status \notin PendingStatuses
        /\ key = (IF project.tasks[i].stepNo.defined
                  THEN project.tasks[i].stepNo.val ELSE 0)

StepKeys == 0..2

\* C5: every instance adds at most one to stepStatusBreakdown, and exactly
\* one when it has a Pending, In Progress or Not Started step: under the
\* stepNo of the first such step, or 0 when that step has none.  So each
\* key holds the number of instances whose first such step has that number,
\* and later steps change nothing.
C5_FirstPendingStepCounted ==
    ReportSent =>
        /\ DOMAIN Report.fms.stepStatusBreakdown \subseteq StepKeys
        /\ \A key \in StepKeys :
               (IF key \in DOMAIN Report.fms.stepStatusBreakdown
                THEN Report.fms.stepStatusBreakdown[key] ELSE 0)
               = Count(projects, LAMBDA q : IsCountedUnder(q, key))
        /\ SumBuckets(Report.fms.stepStatusBreakdown) =
               Count(projects,
                     LAMBDA q : \E i \in 1..Len(q.tasks) :
                                    q.tasks[i].status \in PendingStatuses)

\* an instance whose first pending step has no stepNo and is followed by a
\* pending step numbered 2: only key 0 is counted
C5_Witness ==
    /\ ReportSent
    /\ Len(projects) = 1
    /\ Len(projects[1].tasks) = 2
    /\ projects[1].tasks[1].status = "Not Started"
    /\ ~projects[1].tasks[1].stepNo.defined
    /\ projects[1].tasks[2].status = "Pending"
    /\ projects[1].tasks[2].stepNo = Number(2)
    /\ DOMAIN Report.fms.stepStatusBreakdown = {0}

-----------------------------------------------------------------------------
(* C6 *)

\* the steps of person userId, in stored order
StepsOf(userId) == SelectSeq(AllSteps(projects), LAMBDA t : t.who = userId)

\* C6: the fms person records cover every step with a resolved who: there
\* is one record for each such person, its total is the number of that
\* person's steps, inProgress the number of them In Progress, completed the
\* number of them Done, and pendingSteps lists the step numbers (0 when
\* absent) of all the others in stored order, duplicates kept; a Pending
\* step is in pendingSteps, not in inProgress.
C6_FmsPersonBreakdown ==
    ReportSent =>
        /\ { Report.fms.byPerson[i].userId : i \in 1..Len(Report.fms.byPerson) }
               = { t.who : t \in { AllSteps(projects)[i] :
                                     i \in 1..Len(AllSteps(projects)) } }
                 \ {Null}
        /\ \A i \in 1..Len(Report.fms.byPerson) :
               LET person == Report.fms.byPerson[i]
                   mine == StepsOf(person.userId)
                   others == SelectSeq(mine, LAMBDA t : t.status
                                           \notin {"In Progress", "Done"})
               IN  /\ person.total = Len(mine)
                   /\ person.inProgress =
                          Count(mine, LAMBDA t : t.status = "In Progress")
                   /\ person.completed =
                          Count(mine, LAMBDA t : t.status = "Done")
                   /\ person.pendingSteps =
                          [j \in 1..Len(others) |->
                               IF others[j].stepNo.defined
                               THEN others[j].stepNo.val ELSE 0]

\* a person with a Pending step numbered 2 in each of two instances:
\* pendingSteps holds 2 twice and inProgress stays 0
C6_Witness ==
    /\ ReportSent
    /\ Len(projects) = 2
    /\ \E i \in 1..Len(Report.fms.byPerson) :
           LET person == Report.fms.byPerson[i]
           IN  /\ person.pendingSteps = << 2, 2 >>
               /\ person.inProgress = 0
               /\ \A j \in 1..2 : projects[j].tasks[1].status = "Pending"

-----------------------------------------------------------------------------
(* C10 *)

\* C10: tasks.oneOff is the number of fetched tasks whose taskType is
\* 'one-time' and tasks.cyclic the number of all the others, a missing or
\* unlisted taskType included, so oneOff + cyclic = total; and the same
\* holds of every person record over that person's tasks.
C10_OneOffCyclicComplement ==
    ReportSent =>
        /\ Report.tasks.oneOff = Count(tasks, LAMBDA t : t.taskType = "one-time")
        /\ Report.tasks.cyclic = Count(tasks, LAMBDA t : t.taskType # "one-time")
        /\ Report.tasks.oneOff + Report.tasks.cyclic = Report.tasks.total
        /\ \A i \in 1..Len(Report.tasks.byPerson) :
               LET person == Report.tasks.byPerson[i]
                   mine == SelectSeq(tasks,
                                     LAMBDA t : t.assignedTo = person.userId)
               IN  /\ person.oneOff =
                          Count(mine, LAMBDA t : t.taskType = "one-time")
                   /\ person.cyclic =
                          Count(mine, LAMBDA t : t.taskType # "one-time")
                   /\ person.oneOff + person.cyclic = person.total

\* a person with a task of an unlisted type and a task without a type:
\* both are cyclic
C10_Witness ==
    /\ ReportSent
    /\ Len(tasks) = 2
    /\ tasks[1].taskType = "adhoc"
    /\ tasks[2].taskType = Undefined
    /\ Report.tasks.cyclic = 2
    /\ \E i \in 1..Len(Report.tasks.byPerson) :
           Report.tasks.byPerson[i].cyclic = 2

-----------------------------------------------------------------------------
(* C7 *)

\* the request passed the validation
Accepted == issued # << >>

\* the last calendar day of month m (1 = January) of year y
LastDayOfMonth(y, m) ==
    CASE m = 2 -> IF y % 4 = 0 /\ (y % 100 # 0 \/ y % 400 = 0) THEN 29 ELSE 28
      [] m \in {4, 6, 9, 11} -> 30
      [] OTHER -> 31

\* C7: for every accepted (year, month), startDate is 00:00:00.000 of day 1
\* of that month of that year and endDate is 23:59:59.999 of the last
\* calendar day of the same month of the same year.
C7_PeriodIsTheRequestedMonth ==
    Accepted =>
        /\ startDate = [year |-> yearNum.val, month |-> monthNum.val - 1,
                        date |-> 1, hours |-> 0, minutes |-> 0,
                        seconds |-> 0, ms |-> 0]
        /\ endDate = [year |-> yearNum.val, month |-> monthNum.val - 1,
                      date |-> LastDayOfMonth(yearNum.val, monthNum.val),
                      hours |-> 23, minutes |-> 59, seconds |-> 59,
                      ms |-> 999]

-----------------------------------------------------------------------------
(* C8 *)

\* the request is one the claim says is refused: year or month missing, not
\* parseable as a number, or the month outside 1..12
Refusable ==
    \/ ~query.year.present \/ query.year.text = << >>
    \/ ~query.month.present \/ query.month.text = << >>
    \/ parseInt(query.year.text).nan
    \/ parseInt(query.month.text).nan
    \/ parseInt(query.month.text).val \notin 1..12

AggregateFields == {"period", "tasks", "fms", "checklists", "helpTickets", "users"}

-----------------------------------------------------------------------------
(* C9 *)

\* C9: no request gets more than one response and no query is issued twice;
\* when a store query has rejected, the request has ended, no query was
\* issued after the rejected one, and the one response is the 500 response,
\* which carries no aggregate.
C9_FetchFailureAbortsReport ==
    /\ Len(responses) <= 1
    /\ \A i, j \in 1..Len(issued) : issued[i] = issued[j] => i = j
    /\ rejected # Undefined =>
           /\ pc = "done"
           /\ issued[Len(issued)] = rejected
           /\ Len(responses) = 1
           /\ responses[1].status = 500
           /\ DOMAIN responses[1].body \cap AggregateFields = {}

\* the query of the workflow instances rejects after two tasks were
\* fetched and aggregated: the task aggregate is not sent
C9_Witness ==
    /\ rejected = "projects"
    /\ pc = "done"
    /\ Len(tasks) = 2
    /\ taskStats.total = 2
    /\ responses[1].status = 500

-----------------------------------------------------------------------------
(* C11 *)

\* the status and type buckets every report carries
SeededStatuses == {"pending", "in-progress", "completed", "overdue"}

SeededTypes ==
    {"one-time", "daily", "weekly", "monthly", "quarterly", "yearly"}

\* the values of a field that occur, non-empty, among the fetched tasks
StatusesOf(ts) == { ts[i].status : i \in 1..Len(ts) } \ {Undefined}

TypesOf(ts) == { ts[i].taskType : i \in 1..Len(ts) } \ {Undefined}

\* C11: in every report byStatus has exactly the four seeded buckets and
\* one bucket per other status that occurs among the fetched tasks, byType
\* has exactly the six seeded buckets and one bucket per other type that
\* occurs, and each bucket holds the number of fetched tasks whose status
\* (resp. taskType) is literally the bucket's key.
C11_HistogramsCountLiteralValues ==
    ReportSent =>
        /\ DOMAIN Report.tasks.byStatus = SeededStatuses \cup StatusesOf(tasks)
        /\ \A v \in DOMAIN Report.tasks.byStatus :
               Report.tasks.byStatus[v] = Count(tasks, LAMBDA t : t.status = v)
        /\ DOMAIN Report.tasks.byType = SeededTypes \cup TypesOf(tasks)
        /\ \A v \in DOMAIN Report.tasks.byType :
               Report.tasks.byType[v] = Count(tasks, LAMBDA t : t.taskType = v)

\* two tasks of the unlisted type adhoc, one on hold and one completed:
\* the added buckets hold 1 and 2 next to seeded buckets at zero
C11_Witness ==
    /\ ReportSent
    /\ Len(tasks) = 2
    /\ "on-hold" \in DOMAIN Report.tasks.byStatus
    /\ Report.tasks.byStatus["on-hold"] = 1
    /\ Report.tasks.byStatus["completed"] = 1
    /\ Report.tasks.byStatus["overdue"] = 0
    /\ "adhoc" \in DOMAIN Report.tasks.byType
    /\ Report.tasks.byType["adhoc"] = 2
    /\ Report.tasks.byType["yearly"] = 0

-----------------------------------------------------------------------------
(* C12 *)

\* the casings of the status texts the handler names
OpenCasings == {"open", "Open", "OPEN"}

InProgressCasings == {"in progress", "In Progress", "IN PROGRESS"}

ClosedCasings ==
    {"closed", "Closed", "CLOSED",
     "verified & closed", "Verified & Closed", "VERIFIED & CLOSED"}

\* the named bucket a ticket with a status text belongs to, if any
NamedBucket(ticket) ==
    IF ticket.status \in OpenCasings THEN "open"
    ELSE IF ticket.status \in InProgressCasings THEN "in-progress"
    ELSE IF ticket.status \in ClosedCasings THEN "closed"
    ELSE "none"

\* a ticket with a status text
HasStatus(ticket) == ticket.status # Undefined

\* the tickets attributed to a person, in fetch order
TicketsOf(userId) ==
    SelectSeq(helpTickets, LAMBDA h : Attributed(h) = userId)

\* the counters of a record count the tickets with a status text by their
\* named bucket, tickets with any other text in the total alone
CountsByCasing(counters, hs) ==
    /\ counters.total = Len(hs)
    /\ \A b \in {"open", "in-progress", "closed"} :
           counters[b] - Count(hs, LAMBDA h : ~HasStatus(h) /\ b = "open")
               = Count(hs, LAMBDA h : HasStatus(h) /\ NamedBucket(h) = b)
    /\ counters.open + counters["in-progress"] + counters.closed
           = Len(hs) - Count(hs, LAMBDA h : HasStatus(h) /\ NamedBucket(h) = "none")

\* C12: in every report, of the tickets that carry a status text, open
\* counts those whose text is a casing of open, in-progress those whose
\* text is a casing of in progress, closed those whose text is a casing of
\* closed or of verified & closed; a ticket with any other text is in the
\* total and in no named bucket, so the named buckets sum to the total
\* less those tickets and no ticket is in two buckets.  The same holds of
\* each person's record over the tickets attributed to that person.
C12_StatusComparedLowerCased ==
    ReportSent =>
        /\ CountsByCasing(Report.helpTickets, helpTickets)
        /\ \A i \in 1..Len(Report.helpTickets.byPerson) :
               CountsByCasing(Report.helpTickets.byPerson[i],
                              TicketsOf(Report.helpTickets.byPerson[i].userId))

\* an upper-case CLOSED ticket and an On Hold ticket of the same person:
\* one in closed, the other in the totals alone
C12_Witness ==
    /\ ReportSent
    /\ Len(helpTickets) = 2
    /\ helpTickets[1].status = "CLOSED"
    /\ helpTickets[2].status = "On Hold"
    /\ Report.helpTickets.total = 2
    /\ Report.helpTickets.closed = 1
    /\ Report.helpTickets.open = 0
    /\ Report.helpTickets["in-progress"] = 0
    /\ Len(Report.helpTickets.byPerson) = 1
    /\ Report.helpTickets.byPerson[1].total = 2
    /\ Report.helpTickets.byPerson[1].closed = 1

-----------------------------------------------------------------------------
(* C13 *)

\* the user ids of the records of a byPerson sequence, in order
UserIdsOf(byPerson) == [i \in 1..Len(byPerson) |-> byPerson[i].userId]

\* the persons the fetched tickets are attributed to
AttributedPersons ==
    { Attributed(helpTickets[i]) : i \in 1..Len(helpTickets) } \ {Null}

\* C13: in every report a ticket without a status text is counted as open,
\* next to the tickets whose text is a casing of open; the byPerson records
\* are those of the persons some ticket is attributed to (the assignee when
\* there is one, else the raiser when there is one), one record each,
\* carrying that person's id, username and email and counting exactly the
\* tickets attributed to that person, the statusless ones under open; a
\* ticket with neither person is in no record and still in the total.
C13_DefaultOpenAndAttribution ==
    ReportSent =>
        LET bp == Report.helpTickets.byPerson
        IN  /\ Report.helpTickets.total = Len(helpTickets)
            /\ Report.helpTickets.open =
                   Count(helpTickets, LAMBDA h : ~HasStatus(h))
                   + Count(helpTickets, LAMBDA h : h.status \in OpenCasings)
            /\ { bp[i].userId : i \in 1..Len(bp) } = AttributedPersons
            /\ \A i, j \in 1..Len(bp) : bp[i].userId = bp[j].userId => i = j
            /\ SumTotals(bp) =
                   Count(helpTickets, LAMBDA h : Attributed(h) # Null)
            /\ \A i \in 1..Len(bp) :
                   /\ bp[i].username = OrElse(Username(bp[i].userId), "Unknown")
                   /\ bp[i].email = OrElse(Email(bp[i].userId), "")
                   /\ bp[i].total = Len(TicketsOf(bp[i].userId))
                   /\ bp[i].open =
                          Count(TicketsOf(bp[i].userId), LAMBDA h :
                                    ~HasStatus(h) \/ h.status \in OpenCasings)

\* a ticket without status or assignee raised by u2, and a ticket with
\* neither person: both open, one record, of u2, counting the first alone
C13_Witness ==
    /\ ReportSent
    /\ Len(helpTickets) = 2
    /\ helpTickets[1] =
           [status |-> Undefined, assignedTo |-> Null, raisedBy |-> "u2"]
    /\ helpTickets[2].assignedTo = Null
    /\ helpTickets[2].raisedBy = Null
    /\ helpTickets[2].status = Undefined
    /\ Report.helpTickets.total = 2
    /\ Report.helpTickets.open = 2
    /\ UserIdsOf(Report.helpTickets.byPerson) = << "u2" >>
    /\ Report.helpTickets.byPerson[1].total = 1
    /\ Report.helpTickets.byPerson[1].open = 1

-----------------------------------------------------------------------------
(* C14 *)

\* an instance without steps
IsStepless(project) == project.tasks = << >>

\* the fetched instances that have steps, in fetch order
WithSteps(ps) == SelectSeq(ps, LAMBDA q : ~IsStepless(q))

\* C14: the fms aggregate of a report is the aggregate of the fetched
\* instances that have steps, with total and completed each raised by the
\* number of stepless instances: a stepless instance is counted as
\* completed, not as in progress, and changes neither stepStatusBreakdown
\* nor any person's record.
C14_SteplessInstanceIsCompleted ==
    ReportSent =>
        LET stepless == Count(projects, IsStepless)
            others == FmsStats(WithSteps(projects))
        IN  /\ Report.fms.total = others.total + stepless
            /\ Report.fms.completed = others.completed + stepless
            /\ Report.fms.completed >= stepless
            /\ Report.fms.inProgress = others.inProgress
            /\ Report.fms.inProgress <= Len(projects) - stepless
            /\ Report.fms.stepStatusBreakdown = others.stepStatusBreakdown
            /\ Report.fms.byPerson = convertPersonStats(others.byPerson)
            /\ (stepless = Len(projects) =>
                    /\ Report.fms.stepStatusBreakdown = EmptyObject
                    /\ Report.fms.byPerson = << >>)

\* a stepless instance before an instance with one In Progress step of a
\* user: one completed, one in progress, one breakdown entry, one record
C14_Witness ==
    /\ ReportSent
    /\ Len(projects) = 2
    /\ IsStepless(projects[1])
    /\ Len(projects[2].tasks) = 1
    /\ projects[2].tasks[1].status = "In Progress"
    /\ projects[2].tasks[1].who # Null
    /\ Report.fms.total = 2
    /\ Report.fms.completed = 1
    /\ Report.fms.inProgress = 1
    /\ SumBuckets(Report.fms.stepStatusBreakdown) = 1
    /\ Len(Report.fms.byPerson) = 1

-----------------------------------------------------------------------------
(* C15 *)

\* the checklists assigned to a person, in fetch order
ChecklistsOf(userId) ==
    SelectSeq(checklists, LAMBDA c : c.assignedTo = userId)

\* done counts the checklists whose status is Submitted, notDone all the
\* others, and together they are the total
DoneOrNotDone(counters, cs) ==
    /\ counters.total = Len(cs)
    /\ counters.done = Count(cs, LAMBDA c : c.status = "Submitted")
    /\ counters.notDone = Count(cs, LAMBDA c : c.status # "Submitted")
    /\ counters.done + counters.notDone = counters.total

\* C15: in every report done is the number of fetched checklists whose
\* status is exactly Submitted and notDone the number of all the others,
\* those without a status included, so done + notDone = total; and the
\* record of each person counts the checklists assigned to that person in
\* the same way.
C15_ChecklistsDoneOrNotDone ==
    ReportSent =>
        /\ DoneOrNotDone(Report.checklists, checklists)
        /\ \A i \in 1..Len(Report.checklists.byPerson) :
               DoneOrNotDone(Report.checklists.byPerson[i],
                             ChecklistsOf(Report.checklists.byPerson[i].userId))

\* a submitted checklist and one without a status, both of u1
C15_Witness ==
    /\ ReportSent
    /\ checklists = << [status |-> "Submitted", assignedTo |-> "u1"],
                       [status |-> Undefined, assignedTo |-> "u1"] >>
    /\ Report.checklists.done = 1
    /\ Report.checklists.notDone = 1
    /\ Len(Report.checklists.byPerson) = 1
    /\ Report.checklists.byPerson[1].total = 2
    /\ Report.checklists.byPerson[1].done = 1
    /\ Report.checklists.byPerson[1].notDone = 1

-----------------------------------------------------------------------------
(* C17 *)

\* the position of the first occurrence of a reference in a sequence of
\* references that contains it
FirstAt(refs, ref) ==
    CHOOSE i \in 1..Len(refs) :
        /\ refs[i] = ref
        /\ \A j \in 1..(i - 1) : refs[j] # ref

\* ids lists each reference that occurs in refs once, null left out, in
\* the order of the first occurrences
InFirstEncounterOrder(ids, refs) ==
    /\ { ids[i] : i \in 1..Len(ids) } =
           { refs[i] : i \in 1..Len(refs) } \ {Null}
    /\ \A i, j \in 1..Len(ids) : ids[i] = ids[j] => i = j
    /\ \A i, j \in 1..Len(ids) :
           i < j => FirstAt(refs, ids[i]) < FirstAt(refs, ids[j])

\* the person reference of each record of a collection, in fetch order
AssigneesOf(records) == [i \in 1..Len(records) |-> records[i].assignedTo]

StepOwners == [i \in 1..Len(AllSteps(projects)) |-> AllSteps(projects)[i].who]

TicketPersons == [i \in 1..Len(helpTickets) |-> Attributed(helpTickets[i])]

\* C17: in every report each byPerson sequence has one record per user
\* some fetched record of its collection refers to, no user twice and no
\* other user, in the order in which the users are first met in fetch
\* order; and the users list is the whole fetched directory, in its order,
\* whether or not a user has a record.
C17_OneRecordPerPersonInFirstEncounterOrder ==
    ReportSent =>
        /\ InFirstEncounterOrder(UserIdsOf(Report.tasks.byPerson),
                                 AssigneesOf(tasks))
        /\ InFirstEncounterOrder(UserIdsOf(Report.fms.byPerson), StepOwners)
        /\ InFirstEncounterOrder(UserIdsOf(Report.checklists.byPerson),
                                 AssigneesOf(checklists))
        /\ InFirstEncounterOrder(UserIdsOf(Report.helpTickets.byPerson),
                                 TicketPersons)
        /\ Len(Report.users) = Len(users)
        /\ \A i \in 1..Len(users) :
               Report.users[i] = [_id |-> users[i]._id,
                                  username |-> users[i].username,
                                  email |-> users[i].email]

\* tasks of u2 and then of u1 against the directory that lists u1 first:
\* the records are in the order u2, u1 and no checklist record exists,
\* while both users are in the users list
C17_Witness ==
    /\ ReportSent
    /\ Len(tasks) = 2
    /\ tasks[1].assignedTo = "u2"
    /\ tasks[2].assignedTo = "u1"
    /\ UserIdsOf(Report.tasks.byPerson) = << "u2", "u1" >>
    /\ Report.checklists.byPerson = << >>
    /\ Len(Report.users) = 2
    /\ Report.users[1]._id = "u1"
    /\ Report.users[2]._id = "u2"

-----------------------------------------------------------------------------
(* C16 *)

\* request r has been answered with a report
ReportSentTo(r) ==
    /\ handlers[r].pc = "done"
    /\ Len(handlers[r].responses) = 1
    /\ handlers[r].responses[1].status = 200

ReportOf(r) == handlers[r].responses[1].body

\* what the store answered request r with
FetchedBy(r) ==
    [users |-> frames[r].users, tasks |-> frames[r].tasks,
     projects |-> frames[r].projects, checklists |-> frames[r].checklists,
     helpTickets |-> frames[r].helpTickets]

-----------------------------------------------------------------------------
(* C18 *)

\* the response of a request with query q that runs alone against the
\* store and whose queries all resolve
RunAlone(q) ==
    IF Not(q.year) \/ Not(q.month)
    THEN Response(400, [message |-> "Year and month are required"])
    ELSE LET y == parseInt(q.year.text)
             m == parseInt(q.month.text)
         IN  IF InvalidYearOrMonth(y, m)
             THEN Response(400, [message |-> "Invalid year or month"])
             ELSE LET range == getMonthRange(y.val, m.val)
                      found(collection) ==
                          FindCreatedBetween(collection, range.startDate,
                                             range.endDate)
                  IN  Response(200,
                          ReportDocument(
                              [yearNum |-> y, monthNum |-> m,
                               startDate |-> range.startDate,
                               endDate |-> range.endDate,
                               users |-> store.users,
                               taskStats |-> TaskStats(found("tasks")),
                               fmsStats |-> FmsStats(found("projects")),
                               checklistStats |->
                                   ChecklistStats(found("checklists"))],
                              HelpTicketStats(found("helpTickets"))))

\* every answered request got one response: the 500 response when one of
\* its queries rejected, else the response it would get running alone
AnsweredAsAlone ==
    \A r \in DOMAIN handlers :
        /\ Len(handlers[r].responses) <= 1
        /\ handlers[r].pc = "done" =>
               /\ Len(handlers[r].responses) = 1
               /\ IF handlers[r].rejected
                  THEN handlers[r].responses[1].status = 500
                  ELSE handlers[r].responses[1] = RunAlone(handlers[r].query)

\* a step leaves the store as it is, and changes the bindings of an
\* invocation only when it is a step of that invocation
NothingShared ==
    /\ store' = store
    /\ \A r \in DOMAIN handlers :
           frames'[r] # frames[r] => handlers'[r].pc # handlers[r].pc

\* C18: however the invocations of concurrent report requests interleave
\* at their awaits, no step writes to the store, no step of one request
\* changes the bindings of another (the handler keeps no module-level
\* state), and each request whose queries resolve is answered exactly as
\* if it ran alone against the same store contents.
C18_ConcurrentRequestsIsolated == []AnsweredAsAlone /\ [][NothingShared]_vars

\* requests for February and for March 2024 both answered with a report,
\* the store holding one task, created in February: the first report
\* counts it and the second one does not
C18_Witness ==
    /\ ReportSentTo(1) /\ ReportSentTo(2)
    /\ handlers[1].query.month.text = << "2" >>
    /\ handlers[2].query.month.text = << "3" >>
    /\ ReportOf(1).tasks.total = 1
    /\ ReportOf(2).tasks.total = 0
    /\ ReportOf(1).period.month = 2
    /\ ReportOf(2).period.month = 3

-----------------------------------------------------------------------------
(* C19 *)

\* C19 as stated: whatever getConfig and updateConfig calls have run, in
\* whatever interleaving, the collection holds at most one FMSDisplayConfig
\* document.
C19_AtMostOneConfigDocument == Len(configDocs) <= 1

-----------------------------------------------------------------------------
(* C20 *)

FiveMinutes == 5 * 60 * 1000

\* the step in which GET /dashboard request r arrives
IsDashboardArrival(r) ==
    /\ purchaseRequests[r].pc = "idle"
    /\ purchaseRequests'[r].route = "dashboard"

\* the step in which the service answers GET /dashboard request r
IsDashboardSuccess(r) ==
    /\ purchaseRequests[r].route = "dashboard"
    /\ purchaseRequests[r].pc = "awaitService"
    /\ purchaseRequests'[r].dashboardData # Null

\* what C20 says of one step
DashboardServesFreshCacheOnly ==
    \A r \in DOMAIN purchaseRequests :
        /\ IsDashboardArrival(r) =>
               /\ purchaseRequests'[r].now = clock
               /\ IF dashboardCache # Null
                     /\ clock - cacheTimestamp < FiveMinutes
                  THEN /\ serviceCalls' = serviceCalls
                       /\ purchaseRequests'[r].pc = "done"
                       /\ purchaseRequests'[r].responses =
                              << Response(200, dashboardCache) >>
                  ELSE /\ serviceCalls' = serviceCalls + 1
                       /\ purchaseRequests'[r].pc = "awaitService"
                       /\ purchaseRequests'[r].responses = << >>
               /\ dashboardCache' = dashboardCache
               /\ cacheTimestamp' = cacheTimestamp
        /\ IsDashboardSuccess(r) =>
               /\ dashboardCache' = purchaseRequests'[r].dashboardData
               /\ cacheTimestamp' = purchaseRequests[r].now
               /\ purchaseRequests'[r].responses =
                      << Response(200, purchaseRequests'[r].dashboardData) >>
               /\ purchaseRequests'[r].pc = "done"
               /\ serviceCalls' = serviceCalls

\* C20: a GET /dashboard request that arrives when the cache is populated
\* and younger than five minutes is answered at once with the cached data
\* and makes no service call; one that arrives in any other state (no
\* cache, or a cache of five minutes or more) calls the service and is not
\* answered yet; and when the service answers, the data is cached under
\* the time read at the arrival of the request and sent as the response.
C20_DashboardServesFreshCacheOnly == [][DashboardServesFreshCacheOnly]_vars

\* the first request fetched and cached the data; the second one arrived
\* 2.5 minutes later and was answered from the cache: one service call
C20_Witness ==
    /\ purchaseRequests[1].route = "dashboard"
    /\ purchaseRequests[1].dashboardData # Null
    /\ purchaseRequests[1].now = StartTime
    /\ purchaseRequests[2].route = "dashboard"
    /\ purchaseRequests[2].pc = "done"
    /\ purchaseRequests[2].now = StartTime + TickMs
    /\ purchaseRequests[2].dashboardData = Null
    /\ purchaseRequests[2].responses =
           << Response(200, purchaseRequests[1].dashboardData) >>
    /\ cacheTimestamp = StartTime
    /\ serviceCalls = 1

\* a request that arrives when the cache is exactly five minutes old calls
\* the service
C20_WitnessExpired ==
    /\ purchaseRequests[1].dashboardData # Null
    /\ purchaseRequests[1].now = StartTime
    /\ purchaseRequests[2].route = "dashboard"
    /\ purchaseRequests[2].now = StartTime + FiveMinutes
    /\ purchaseRequests[2].pc = "awaitService"
    /\ dashboardCache # Null
    /\ serviceCalls = 2

-----------------------------------------------------------------------------
(* C21 *)

\* the step in which the service fails GET /dashboard request r
IsDashboardFailure(r) ==
    /\ purchaseRequests[r].route = "dashboard"
    /\ purchaseRequests[r].pc = "awaitService"
    /\ purchaseRequests'[r].pc = "done"
    /\ purchaseRequests'[r].dashboardData = Null

ZeroMetrics ==
    [totalIndents |-> 0, approved |-> 0, pending |-> 0, fullyIssued |-> 0,
     partiallyIssued |-> 0, urgentCount |-> 0, normalCount |-> 0]

\* what C21 says of one step
FailedFetchServesWhatIsCached ==
    \A r \in DOMAIN purchaseRequests :
        IsDashboardFailure(r) =>
            LET sent == purchaseRequests'[r].responses
            IN  /\ Len(sent) = 1
                /\ dashboardCache' = dashboardCache
                /\ cacheTimestamp' = cacheTimestamp
                /\ IF dashboardCache # Null
                   THEN /\ sent[1].status = 200
                        /\ sent[1].body.data = dashboardCache
                        /\ sent[1].body.cached = TRUE
                        /\ sent[1].body.cacheAge * 1000 =
                               clock - cacheTimestamp
                   ELSE /\ sent[1].status = 500
                        /\ sent[1].body.fallback = TRUE
                        /\ sent[1].body.success = FALSE
                        /\ sent[1].body.metrics = ZeroMetrics
                        /\ sent[1].body.allIndents = << >>

\* C21: when the service call of a GET /dashboard request fails, the one
\* response is the data cached at that moment, of whatever age, marked
\* cached with its age in seconds, when there is such data, and else the
\* 500 response with the fallback of zero metrics; the cache and its
\* timestamp are as they were.
C21_FailedFetchServesWhatIsCached == [][FailedFetchServesWhatIsCached]_vars

\* the second request arrived when the cache was five minutes old, its
\* service call failed later and it was sent the old data
C21_Witness ==
    /\ purchaseRequests[1].dashboardData # Null
    /\ purchaseRequests[2].route = "dashboard"
    /\ purchaseRequests[2].pc = "done"
    /\ purchaseRequests[2].dashboardData = Null
    /\ purchaseRequests[2].now >= cacheTimestamp + CACHE_DURATION
    /\ purchaseRequests[2].responses[1].status = 200
    /\ purchaseRequests[2].responses[1].body =
           [data |-> purchaseRequests[1].dashboardData, cached |-> TRUE,
            cacheAge |-> 450]
    /\ dashboardCache = purchaseRequests[1].dashboardData

-----------------------------------------------------------------------------
(* C22 *)

\* the cache holds data written under a later time than request r arrived
IsOvertaken(r) ==
    /\ dashboardCache # Null
    /\ cacheTimestamp > purchaseRequests[r].now

\* what C22 says of one step
EarlierRequestOverwrites ==
    \A r \in DOMAIN purchaseRequests :
        IsDashboardSuccess(r) /\ IsOvertaken(r) =>
            /\ dashboardCache' = purchaseRequests'[r].dashboardData
            /\ cacheTimestamp' = purchaseRequests[r].now
            /\ cacheTimestamp' < cacheTimestamp

\* C22: nothing guards the cache: when the service answers a GET /dashboard
\* request while the cache holds data written under a later time than the
\* request arrived, the request overwrites the cache with its own data and
\* its own, earlier, arrival time, so that cacheTimestamp decreases; and
\* such steps are reachable with a GET /dashboard and a POST /refresh
\* request that overlap.
C22_EarlierRequestOverwrites == [][EarlierRequestOverwrites]_vars

\* request 0 arrived first, at StartTime; the refresh, request 1, arrived
\* later and was answered first, so that it cached its data under a time
\* after StartTime; then request 0 was answered: the cache holds its data
\* under StartTime
C22_Witness ==
    /\ purchaseRequests[0].now = StartTime
    /\ purchaseRequests[0].pc = "done"
    /\ purchaseRequests[0].dashboardData # Null
    /\ purchaseRequests[1].route = "refresh"
    /\ purchaseRequests[1].pc = "done"
    /\ purchaseRequests[1].dashboardData # Null
    /\ purchaseRequests[1].dashboardData # purchaseRequests[0].dashboardData
    /\ purchaseRequests[2].pc = "idle"
    /\ dashboardCache = purchaseRequests[0].dashboardData
    /\ cacheTimestamp = StartTime
    /\ clock > StartTime

-----------------------------------------------------------------------------
(* C23 *)

\* the step in which POST /refresh request q arrives
IsRefreshArrival(q) ==
    /\ purchaseRequests[q].pc = "idle"
    /\ purchaseRequests'[q].route = "refresh"

\* POST /refresh request q has been answered with data
RefreshSucceeded(q) ==
    /\ purchaseRequests[q].route = "refresh"
    /\ purchaseRequests[q].pc = "done"
    /\ purchaseRequests[q].dashboardData # Null

\* request r is the first to arrive since the refresh q succeeded: under
\* InitInFlight request 0 arrived before every other one, and every
\* request but q and r is still to come
IsNextAfter(q, r) ==
    /\ RefreshSucceeded(q)
    /\ IsDashboardArrival(r)
    /\ \A o \in DOMAIN purchaseRequests \ {0, q, r} :
           purchaseRequests[o].pc = "idle"

\* less than five minutes have passed since any refresh succeeded: under
\* InitInFlight none succeeded before StartTime + TickMs
WithinFiveMinutesOfRefresh == clock - (StartTime + TickMs) < FiveMinutes

\* what C23 says of one step
RefreshedDataServedNext ==
    /\ \A q \in DOMAIN purchaseRequests :
           IsRefreshArrival(q) =>
               /\ serviceCalls' = serviceCalls + 1
               /\ purchaseRequests'[q].pc = "awaitService"
    /\ \A q, r \in DOMAIN purchaseRequests :
           IsNextAfter(q, r) /\ WithinFiveMinutesOfRefresh =>
               /\ serviceCalls' = serviceCalls
               /\ purchaseRequests'[r].responses =
                      << Response(200, purchaseRequests[q].dashboardData) >>

\* C23: a POST /refresh request calls the service whatever the age of the
\* cache, and once it has succeeded the next GET /dashboard request, when
\* it arrives less than five minutes later, is answered with exactly the
\* data of the refresh and makes no service call, whatever other requests
\* are in flight.
C23_RefreshedDataServedNext == [][RefreshedDataServedNext]_vars

-----------------------------------------------------------------------------
(* C25 *)

\* the step in which the service fails POST /refresh request q
IsRefreshFailure(q) ==
    /\ purchaseRequests[q].route = "refresh"
    /\ purchaseRequests[q].pc = "awaitService"
    /\ purchaseRequests'[q].pc = "done"
    /\ purchaseRequests'[q].dashboardData = Null

\* what C25 says of one step
FailedRefreshRestoresNothing ==
    \A q \in DOMAIN purchaseRequests :
        /\ IsRefreshArrival(q) =>
               /\ dashboardCache' = Null
               /\ cacheTimestamp' = 0
        /\ IsRefreshFailure(q) =>
               /\ dashboardCache' = dashboardCache
               /\ cacheTimestamp' = cacheTimestamp
               /\ Len(purchaseRequests'[q].responses) = 1
               /\ purchaseRequests'[q].responses[1].status = 500
               /\ purchaseRequests'[q].responses[1].body.message =
                      "Unable to refresh data"
        /\ IsDashboardFailure(q) /\ dashboardCache = Null =>
               /\ purchaseRequests'[q].responses = << Response(500, Fallback) >>
               /\ dashboardCache' = Null
               /\ cacheTimestamp' = 0

\* C25: POST /refresh clears the cache (null, timestamp 0) when it arrives,
\* and when its service call fails it answers 500 and assigns neither the
\* cache nor the timestamp, so that the data cached before it is not
\* restored; a GET /dashboard request whose service call fails while the
\* cache is still cleared is answered with the 500 fallback.
C25_FailedRefreshRestoresNothing == [][FailedRefreshRestoresNothing]_vars

\* request 0 cached its data; then the refresh, request 1, failed, and then
\* the service failed request 2, a GET /dashboard that arrived after the
\* refresh: it was sent the fallback, and nothing is cached
C25_Witness ==
    /\ purchaseRequests[0].pc = "done"
    /\ purchaseRequests[0].dashboardData # Null
    /\ purchaseRequests[1].route = "refresh"
    /\ purchaseRequests[1].pc = "done"
    /\ purchaseRequests[1].responses[1].status = 500
    /\ purchaseRequests[2].route = "dashboard"
    /\ purchaseRequests[2].pc = "done"
    /\ purchaseRequests[2].now > StartTime + TickMs
    /\ purchaseRequests[2].responses = << Response(500, Fallback) >>
    /\ dashboardCache = Null
    /\ cacheTimestamp = 0
    /\ serviceCalls = 3

-----------------------------------------------------------------------------
(* C26 *)

EnumValues == {"name", "designation", "both"}

StoredModesValid ==
    \A i \in DOMAIN configDocs : configDocs[i].displayMode \in EnumValues

\* the step in which PUT /fms-display-config call c arrives and passes
\* isSuperAdmin
IsPutBySuperAdmin(c) ==
    /\ configCalls[c].pc = "idle"
    /\ configCalls'[c].route = "PUT"
    /\ configCalls'[c].role = "superadmin"

\* call c has been answered 400
Refused400(c) ==
    /\ configCalls[c].pc = "done"
    /\ Len(configCalls[c].responses) = 1
    /\ configCalls[c].responses[1].status = 400

\* an arriving PUT without a displayMode of the enum is answered 400 at
\* once; a call answered 400 takes no further step
InvalidPutRefused ==
    \A c \in DOMAIN configCalls :
        /\ IsPutBySuperAdmin(c) /\ configCalls'[c].body \notin EnumValues =>
               /\ configCalls'[c].pc = "done"
               /\ Len(configCalls'[c].responses) = 1
               /\ configCalls'[c].responses[1].status = 400
               /\ configCalls'[c].responses[1].body.success = FALSE
               /\ configDocs' = configDocs
        /\ IsPutBySuperAdmin(c) /\ configCalls'[c].body \in EnumValues =>
               /\ configCalls'[c].pc = "awaitFindOne"
               /\ configCalls'[c].responses = << >>
        /\ Refused400(c) => configCalls'[c] = configCalls[c]

\* C26: in every reachable state the displayMode of every stored
\* FMSDisplayConfig document is name, designation or both; and a
\* PUT /fms-display-config request that reaches the handler with a
\* displayMode that is missing or any other value is answered 400 and
\* neither creates nor modifies a document.
C26_OnlyEnumModesStored == []StoredModesValid /\ [][InvalidPutRefused]_vars

\* "both" was stored by the first PUT; the second one asked for "initials"
\* and was answered 400: the document is as it was
C26_Witness ==
    /\ configCalls[1].route = "PUT"
    /\ configCalls[1].pc = "done"
    /\ configCalls[1].body = "both"
    /\ configCalls[1].responses[1].status = 200
    /\ configCalls[2].route = "PUT"
    /\ configCalls[2].role = "superadmin"
    /\ configCalls[2].body = "initials"
    /\ Refused400(2)
    /\ configDocs = << [displayMode |-> "both"] >>

-----------------------------------------------------------------------------
(* C27 *)

\* the step in which GET /fms-display-config call c is answered 200
IsGetAnswer(c) ==
    /\ configCalls[c].route = "GET"
    /\ configCalls[c].pc # "done"
    /\ configCalls'[c].pc = "done"
    /\ configCalls'[c].responses[1].status = 200

\* call p is a PUT answered 200 and no other PUT has arrived
IsOnlyPut(p) ==
    /\ configCalls[p].route = "PUT"
    /\ configCalls[p].pc = "done"
    /\ configCalls[p].responses[1].status = 200
    /\ \A o \in DOMAIN configCalls \ {p} : configCalls[o].route # "PUT"

\* the collection as the race of InitAfterRace leaves it is a reachable
\* state of SpecConfig
RaceLeavesTwoDocuments ==
    /\ Len(configDocs) = 2
    /\ configDocs[1].displayMode = "name"
    /\ \E c \in DOMAIN configCalls :
           /\ configCalls[c] = CreatedByPut(configDocs[2].displayMode, 2)
           /\ configCalls[c].displayMode # "name"

\* what C27 says of one step: under InitAfterRace call 0 succeeded before
\* any of ConfigCalls arrived
GetReturnsLastPut ==
    \A c \in ConfigCalls :
        IsGetAnswer(c) /\ IsOnlyPut(0) =>
            configCalls'[c].responses[1].body.config.displayMode =
                configCalls[0].body

\* C27: after a PUT /fms-display-config request with mode m was answered
\* with success, every GET /fms-display-config request that arrives before
\* another PUT is answered with m, whatever requests came before.
C27_GetReturnsLastPut == [][GetReturnsLastPut]_vars

-----------------------------------------------------------------------------
(* C28 *)

KnownStepStatuses == {"Pending", "In Progress", "Done", "Not Started"}

\* every step of the instance has one of the four statuses
HasKnownStatuses(project) ==
    \A i \in 1..Len(project.tasks) :
        project.tasks[i].status \in KnownStepStatuses

\* the instance has a step that is not Done
HasOpenStep(project) ==
    \E i \in 1..Len(project.tasks) : project.tasks[i].status # "Done"

\* C28: when every step of every fetched workflow instance has one of the
\* statuses Pending, In Progress, Done and Not Started, the values of
\* stepStatusBreakdown add up to fms.total - fms.completed: an instance is
\* counted in stepStatusBreakdown exactly when it is not counted as
\* completed, that is when one of its steps is not Done.
C28_BreakdownCountsTheUncompleted ==
    ReportSent /\ (\A i \in 1..Len(projects) : HasKnownStatuses(projects[i]))
    =>  /\ SumBuckets(Report.fms.stepStatusBreakdown) =
               Report.fms.total - Report.fms.completed
        /\ SumBuckets(Report.fms.stepStatusBreakdown) =
               Count(projects, HasOpenStep)
        /\ \A i \in 1..Len(projects) :
               LET one == FmsStats(<< projects[i] >>)
               IN  SumBuckets(one.stepStatusBreakdown) = 1 - one.completed

\* an instance whose one step is Not Started and an instance whose one
\* step is Done: one of two completed, none in progress, and one entry in
\* stepStatusBreakdown
C28_Witness ==
    /\ ReportSent
    /\ Len(projects) = 2
    /\ Len(projects[1].tasks) = 1
    /\ projects[1].tasks[1].status = "Not Started"
    /\ Len(projects[2].tasks) = 1
    /\ projects[2].tasks[1].status = "Done"
    /\ Report.fms.total = 2
    /\ Report.fms.completed = 1
    /\ Report.fms.inProgress = 0
    /\ SumBuckets(Report.fms.stepStatusBreakdown) = 1

-----------------------------------------------------------------------------
(* C24 *)

\* the report's GET /data, GET /users, PUT /users/:userId and
\* PUT /fms-display-config
SuperadminRoutes == {"GET /data", "GET /users", "PUT /users/:userId", "PUT"}

\* the positions in which a call has a store operation outstanding
StorePositions ==
    {"awaitFindOne", "awaitCreate", "awaitSave", "awaitFind",
     "awaitFindById", "awaitUserSave"}

\* call c is for a route of the superadmin, from a user of another role
IsFromOther(c) ==
    /\ configCalls[c].route \in SuperadminRoutes
    /\ configCalls[c].role # Undefined
    /\ configCalls[c].role # "superadmin"

\* such a call is answered, with the one response 403 that carries a
\* message and nothing else
IsDenied(c) ==
    /\ configCalls[c].pc = "done"
    /\ Len(configCalls[c].responses) = 1
    /\ configCalls[c].responses[1].status = 403
    /\ DOMAIN configCalls[c].responses[1].body \subseteq {"success", "message"}
    /\ configCalls[c].userId = Undefined
    /\ configCalls[c].config = NotFound

OthersDenied == \A c \in DOMAIN configCalls : IsFromOther(c) => IsDenied(c)

\* the step in which such a call arrives changes no collection, and the
\* call takes no step after it
OthersTouchNothing ==
    \A c \in DOMAIN configCalls :
        /\ configCalls[c].pc = "idle" /\ IsFromOther(c)' =>
               /\ configCalls'[c].pc \notin StorePositions
               /\ configDocs' = configDocs
               /\ userDocs' = userDocs
        /\ IsFromOther(c) => configCalls'[c] = configCalls[c]

\* C24: a request for GET /data of the report, GET /users,
\* PUT /users/:userId or PUT /fms-display-config from an authenticated
\* user whose role is not superadmin is answered 403 with a message only
\* (no report, no user data) as it arrives: it never has a store operation
\* outstanding, and no document is read, created or modified for it.
C24_OthersDeniedBeforeTheStore == []OthersDenied /\ [][OthersTouchNothing]_vars

\* an employee asked for the report's data and for a change of a user's
\* designation: both were denied and the users are as they were
C24_Witness ==
    /\ configCalls[1].route = "GET /data"
    /\ configCalls[1].role = "employee"
    /\ configCalls[1].responses = << Response(403, SuperadminOnly) >>
    /\ configCalls[2].route = "PUT /users/:userId"
    /\ configCalls[2].role = "employee"
    /\ configCalls[2].responses = << Response(403, AccessDenied) >>
    /\ userDocs = StoredUsers
    /\ configDocs = << >>

\* a superadmin is served: the designation of u1 was changed and the list
\* of users was sent
C24_WitnessSuperadmin ==
    /\ configCalls[1].route = "PUT /users/:userId"
    /\ configCalls[1].role = "superadmin"
    /\ configCalls[1].pc = "done"
    /\ configCalls[1].responses[1].status = 200
    /\ userDocs["u1"].designation = "Manager"
    /\ configCalls[2].route = "GET /users"
    /\ configCalls[2].pc = "done"
    /\ configCalls[2].responses[1].status = 200
    /\ configCalls[2].responses[1].body.users = userDocs

-----------------------------------------------------------------------------
(* C29 *)

IndentStatuses == {"Pending", "Fully Issued", "Partially Issued"}

\* getPurchaseDashboardData has returned
DashboardComputed == sheets.pc = "done"

\* the number of records with the status
WithStatus(status) ==
    Cardinality({ i \in 1..Len(sheets.records) :
                    sheets.records[i].status = status })

RECURSIVE SumStoreTotals(_)
SumStoreTotals(storeStats) ==
    IF storeStats = << >> THEN 0
    ELSE Head(storeStats).total + SumStoreTotals(Tail(storeStats))

\* every record has one of the three statuses and the three counts add up
\* to the number of records
StatusesPartitionTheRecords ==
    DashboardComputed =>
        LET data == sheets.dashboardData
        IN  /\ \A i \in 1..Len(sheets.records) :
                   sheets.records[i].status \in IndentStatuses
            /\ data.metrics.fullyIssued = WithStatus("Fully Issued")
            /\ data.metrics.partiallyIssued = WithStatus("Partially Issued")
            /\ data.metrics.fullyIssued + data.metrics.partiallyIssued
                   + WithStatus("Pending") = Len(sheets.records)
            /\ data.allIndents = sheets.records

\* the counts of each store add up, and the stores' totals add up to the
\* number of records
StoresPartitionTheRecords ==
    DashboardComputed =>
        LET data == sheets.dashboardData
        IN  /\ \A i \in 1..Len(data.storeStats) :
                   data.storeStats[i].total =
                       data.storeStats[i].pending + data.storeStats[i].issued
            /\ SumStoreTotals(data.storeStats) = Len(sheets.records)

\* C29: every indent record parsed from the sheet has exactly one of the
\* statuses Pending, Fully Issued and Partially Issued, so that in the
\* result of getPurchaseDashboardData fullyIssued + partiallyIssued + the
\* number of Pending records is the number of records; and each store's
\* total is its pending + issued, and the totals of the stores add up to
\* the number of records.
C29_StatusesAndStoresPartition ==
    StatusesPartitionTheRecords /\ StoresPartitionTheRecords

-----------------------------------------------------------------------------
(* C30 *)

\* a request of the page has not been answered yet
IsInFlight(k) == page.requests[k].status = "inFlight"

\* requests were made and every one has been answered
AllSettled ==
    /\ page.mounted
    /\ page.requests # << >>
    /\ \A k \in 1..Len(page.requests) : ~IsInFlight(k)

\* the request made last, which is the one for the month selected now, was
\* answered with a report
LastRequestSucceeded == page.requests[Len(page.requests)].status = "ok"

\* year and month of the selected month, as the report route numbers them
SelectedPeriod ==
    [year |-> page.selectedMonth.year, month |-> page.selectedMonth.month + 1]

ShowsSelectedMonth ==
    AllSettled /\ LastRequestSucceeded =>
        page.reportData.period = SelectedPeriod

LoadingWhileInFlight ==
    page.mounted /\ ~page.loading =>
        \A k \in 1..Len(page.requests) : ~IsInFlight(k)

\* C30: when the month is changed while an earlier request of the report
\* page is in flight, then, once every request is answered, the report
\* shown is the one for the month selected now (a late response for an
\* earlier selection does not replace it); and loading is false only when
\* no request is in flight.
C30_ShowsSelectedMonth == ShowsSelectedMonth /\ LoadingWhileInFlight

=============================================================================
